---- MODULE Spec2Model ----
(***************************************************************************)
(* Model of the assert-level instrumentation and the instrumented test     *)
(* executor of the HumanEval harness:                                      *)
(*   humaneval_coverage_summary.py  (quiet_io, _AssertRecorder,            *)
(*   _CheckOnly, _instrument_test_code, run_check_and_count_asserts)       *)
(* and its copy in run_humaneval_openai.py.                                *)
(*                                                                         *)
(* A test source is a list of statements; ast.parse gives every statement  *)
(* its line number, the two NodeTransformers rewrite the tree, and one     *)
(* call of run_check_and_count_asserts is a run of the state machine       *)
(* below, one action per step of the function body (Spec).                 *)
(*                                                                         *)
(* Further down: the coverage readers and the summary tables               *)
(*   convergence.parse_coverage_xml, summarize_pytest_cov_style,           *)
(*   compress_line_ranges and the table rows of the two summary scripts    *)
(*   (SpecCoverage);                                                       *)
(* and the feedback loop of convergence.py, one action per step of a round *)
(* of main, over the files the runs leave behind (SpecLoop), with          *)
(* collect_prior_tests_text on its own over any directory (SpecPrior);     *)
(* the batch runners, main of humaneval_coverage_summary.py and of         *)
(* run_humaneval_openai.py, one action per pass of the loop over the       *)
(* solution files (SpecBatch); interpret_result of the two summary scripts *)
(* (SpecNote); and test_humaneval_base of test_humaneval_baseline.py       *)
(* (SpecBaseline).                                                         *)
(***************************************************************************)
EXTENDS Integers, Sequences, FiniteSets, TLC

\* ------------------------------------------------------------------ bounds
\* Statements in a general routine body.
MaxBody == 2
\* Length of the longest straight run of plain assertions.
MaxRun == 5
\* Blank lines ahead of the first statement of a test source.
MaxLead == 1

\* ------------------------------------------------------- syntax tree nodes
\* One record shape for every node. lineno = 0 stands for a node that has no
\* lineno attribute yet (Python's line numbers start at 1).
\*   kind   Module | FunctionDef | For | Assert | Expr | Assign | Return
\*   test   how the statement's expression evaluates: "T" truthy, "F" falsy,
\*          "Raise" raises ValueError, "Exit" raises SystemExit; an ordinary
\*          call may also be "Redirect" (assigns sys.stdout) or "Warn" (a
\*          construct the compiler warns about, evaluating normally)
\*   msg    an Assert's message expression, NoMsg when node.msg is None
\*   func   the callee of an Expr statement's call: "__rec" or "call"
\*   arg3   the third argument of a __rec call
\*   iters  how often a For statement runs its body
NoMsg == "<no msg>"
ConstNone == "Constant(None)"
MsgExpr == "'m'"

Node(kind, name, args, body, test, msg, func, arg3, iters) ==
    [kind |-> kind, lineno |-> 0, name |-> name, args |-> args, body |-> body,
     test |-> test, msg |-> msg, func |-> func, arg3 |-> arg3, iters |-> iters]

AssertStmt(t, m) == Node("Assert", "", <<>>, <<>>, t, m, "", 0, 0)
ExprStmt(t) == Node("Expr", "", <<>>, <<>>, t, NoMsg, "call", 0, 0)
ForStmt(n, b) == Node("For", "", <<>>, b, "", NoMsg, "", 0, n)
DefStmt(n, a, b) == Node("FunctionDef", n, a, b, "", NoMsg, "", 0, 0)
AssignStmt(n) == Node("Assign", n, <<>>, <<>>, "", NoMsg, "", 0, 0)
ReturnStmt == Node("Return", "", <<>>, <<>>, "", NoMsg, "", 0, 0)
ModuleNode(b) == Node("Module", "", <<>>, b, "", NoMsg, "", 0, 0)

Compound == {"Module", "FunctionDef", "For"}

\* ----------------------------------------------------------- ast.parse
\* A test source: ok = FALSE is a text Python cannot parse; lead counts the
\* blank lines before the first statement; body is the statement list.
Source(ok, lead, body) == [ok |-> ok, lead |-> lead, body |-> body]

\* Line numbers by position: a statement takes one line, a compound statement
\* its header line followed by the lines of its body.
RECURSIVE ParseStmts(_, _)
ParseStmts(stmts, line) ==
    IF stmts = <<>> THEN [nodes |-> <<>>, next |-> line]
    ELSE LET s == Head(stmts)
             inner == ParseStmts(s.body, line + 1)
             node == [s EXCEPT !.lineno = line, !.body = inner.nodes]
             after == IF s.kind \in Compound THEN inner.next ELSE line + 1
             rest == ParseStmts(Tail(stmts), after)
         IN [nodes |-> <<node>> \o rest.nodes, next |-> rest.next]

ast_parse(src) == ModuleNode(ParseStmts(src.body, 1 + src.lead).nodes)

\* ast.unparse: the statements of a tree as source text again; blank lines are
\* not kept, and a call statement is rendered with its arguments.
RECURSIVE Unparse(_)
Unparse(nodes) ==
    [i \in DOMAIN nodes |->
        [nodes[i] EXCEPT !.lineno = 0, !.body = Unparse(nodes[i].body)]]

ast_unparse(tree) == Source(TRUE, 0, Unparse(tree.body))

\* ------------------------------------------------ _AssertRecorder, _CheckOnly
\* ast.fix_missing_locations: a node without lineno takes its parent's; the
\* walk starts at line 1 and a Module has no lineno attribute.
RECURSIVE _fix(_, _)
_fix(node, lineno) ==
    LET ln == IF node.kind = "Module" THEN lineno
              ELSE IF node.lineno = 0 THEN lineno ELSE node.lineno
    IN [node EXCEPT !.lineno = IF node.kind = "Module" THEN 0 ELSE ln,
                    !.body = [i \in DOMAIN node.body |-> _fix(node.body[i], ln)]]

fix_missing_locations(node) == _fix(node, 1)

\* Variants of visit_Assert: the assertion kept as it is; the call built with
\* no line number.
visit_Assert_unchanged(node) == node

visit_Assert_wrong_lineno(node) ==
    Node("Expr", "", <<>>, <<>>, node.test,
         IF node.msg # NoMsg THEN node.msg ELSE ConstNone, "__rec", 0, 0)

\* _AssertRecorder.visit_Assert: the statement __rec(test, msg, lineno); the new
\* nodes carry no location.
visit_Assert(node) ==
    Node("Expr", "", <<>>, <<>>, node.test,
         IF node.msg # NoMsg THEN node.msg ELSE ConstNone, "__rec", node.lineno, 0)

\* NodeTransformer.visit of _AssertRecorder: visit_Assert on an Assert, the
\* generic visit (every child statement, at any depth) on anything else.
RECURSIVE AssertRecorder_visit(_)
AssertRecorder_visit(node) ==
    IF node.kind = "Assert" THEN visit_Assert(node)
    ELSE [node EXCEPT !.body =
            [i \in DOMAIN node.body |-> AssertRecorder_visit(node.body[i])]]

\* Variant of is_check: any routine with a parameter named candidate.
is_check_any_candidate(node) ==
    \E i \in DOMAIN node.args : node.args[i] = "candidate"

\* node.name == "check" and any(arg.arg == "candidate" for arg in node.args.args)
is_check(node) ==
    node.name = "check" /\ \E i \in DOMAIN node.args : node.args[i] = "candidate"

\* _CheckOnly.visit_FunctionDef: a routine that is not check(candidate) is
\* returned as it is, its body never visited.
visit_FunctionDef(node) ==
    IF is_check(node) THEN fix_missing_locations(AssertRecorder_visit(node))
    ELSE node

\* NodeTransformer.visit of _CheckOnly.
RECURSIVE CheckOnly_visit(_)
CheckOnly_visit(node) ==
    IF node.kind = "FunctionDef" THEN visit_FunctionDef(node)
    ELSE [node EXCEPT !.body =
            [i \in DOMAIN node.body |-> CheckOnly_visit(node.body[i])]]

\* _instrument_test_code on a source that parses.
_instrument_test_code(src) == fix_missing_locations(CheckOnly_visit(ast_parse(src)))

\* ------------------------------------------------------------ test sources
Repeat(body, n) == IF n = 0 THEN <<>> ELSE IF n = 1 THEN body ELSE body \o body

PlainAsserts == {AssertStmt("T", NoMsg), AssertStmt("F", NoMsg)}

\* The statements of a straight run: assertions that hold, fail or raise.
RunStmt == PlainAsserts \cup {AssertStmt("Raise", NoMsg)}

\* The statements a general routine body is drawn from: assertions that hold,
\* fail, raise or exit, with and without a message; a loop around an assertion
\* that runs never or twice; a call that prints and one that assigns sys.stdout.
BodyStmt ==
    {AssertStmt(t, m) : t \in {"T", "F"}, m \in {NoMsg, MsgExpr}}
    \cup {AssertStmt("Raise", NoMsg), AssertStmt("Exit", NoMsg)}
    \cup {ForStmt(n, <<a>>) : n \in {0, 2}, a \in PlainAsserts}
    \cup {ExprStmt("T"), ExprStmt("Redirect")}

Bodies ==
    UNION {[1..n -> BodyStmt] : n \in 0..MaxBody}
    \cup UNION {[1..n -> RunStmt] : n \in (MaxBody + 1)..MaxRun}

SmallBodies == UNION {[1..n -> BodyStmt] : n \in 0..1}

Check(b) == DefStmt("check", <<"candidate">>, b)

\* Top-level layouts around a routine body b.
MainLayouts(b) ==
    { <<Check(b)>>,
      <<DefStmt("check", <<"c">>, b)>> }

OtherLayouts(b) ==
    { <<DefStmt("helper", <<"candidate">>, b)>>,
      <<DefStmt("check", <<"candidate", "verbose">>, b)>>,
      <<DefStmt("helper", <<"x">>, <<AssertStmt("F", MsgExpr)>>), Check(b)>>,
      <<AssertStmt("T", MsgExpr), Check(b)>>,
      <<AssertStmt("F", NoMsg), Check(b)>>,
      <<Check(b), AssignStmt("check")>>,
      <<ForStmt(1, <<Check(b)>>)>>,
      <<ReturnStmt, Check(b)>> }
    \cup { <<ExprStmt(t), Check(b)>> : t \in {"T", "Warn", "Redirect", "Raise", "Exit"} }

Leads == {0, MaxLead}

TestSources ==
    {Source(FALSE, 0, <<>>)}
    \cup {Source(TRUE, l, m) : l \in Leads, m \in UNION {MainLayouts(b) : b \in Bodies}}
    \cup {Source(TRUE, l, m) : l \in Leads, m \in UNION {OtherLayouts(b) : b \in SmallBodies}}

\* The streams installed in sys.stdout, sys.stderr when the harness is called:
\* the interpreter's own, or a capture the caller has set up.
CallerStreams == {<<"__stdout__", "__stderr__">>, <<"capture_out", "capture_err">>}
DevNull == "devnull"

\* ------------------------------------------------------------- exceptions
NoExc == [type |-> "", text |-> ""]
Exc(type, text) == [type |-> type, text |-> text]

\* The classes derived from Exception among those the model raises; SystemExit
\* derives from BaseException only.
ExceptionClasses == {"SyntaxError", "AssertionError", "ValueError", "TypeError"}

\* Variants of the two handlers: `except AssertionError`.
except_import_AssertionError(e) == e.type = "AssertionError"

\* `except Exception as e` around compile and exec of the test module.
except_import(e) == e.type \in ExceptionClasses

except_runtime_AssertionError(e) == e.type = "AssertionError"

\* `except Exception as e` around check(candidate).
except_runtime(e) == e.type \in ExceptionClasses

\* ------------------------------------------------------- values and records
\* A record's message: None, or a string; a synthetic record's string is made
\* of a prefix, the error's class name and its text.
PyNone == [isnone |-> TRUE, prefix |-> "", type |-> "", text |-> ""]
PyStr(s) == [isnone |-> FALSE, prefix |-> "", type |-> "", text |-> s]
ErrStr(prefix, e) == [isnone |-> FALSE, prefix |-> prefix, type |-> e.type, text |-> e.text]

\* The value of a message expression.
EvalMsg(m) == IF m = ConstNone THEN PyNone ELSE PyStr("m")

\* __rec: (lineno, bool(test_value), str(msg) or None); it never raises.
__rec(test_value, msg, lineno) ==
    <<lineno, test_value = "T", IF msg.isnone THEN PyNone ELSE PyStr(msg.text)>>

\* ------------------------------------------------------------ interpreter
\* st: the check binding of env, the records, the pending exception, the
\* installed streams, the streams written to, the candidate's invocations.
Raise(st, type, text) == [st EXCEPT !.exc = Exc(type, text)]

RECURSIVE ExecStmts(_, _, _)
RECURSIVE ExecStmt(_, _, _)
ExecStmt(s, st, scope) ==
    LET called == IF scope = "function" THEN [st EXCEPT !.calls = @ + 1] ELSE st
    IN CASE s.kind = "Assert" ->
              CASE s.test = "T" -> called
                [] s.test = "F" ->
                     Raise(called, "AssertionError",
                           IF s.msg = NoMsg THEN "" ELSE EvalMsg(s.msg).text)
                [] s.test = "Raise" -> Raise(called, "ValueError", "boom")
                [] OTHER -> Raise(called, "SystemExit", "")
         [] s.kind = "Expr" /\ s.func = "__rec" ->
              CASE s.test \in {"T", "F"} ->
                     [called EXCEPT !.records =
                         Append(@, __rec(s.test, EvalMsg(s.msg), s.arg3))]
                [] s.test = "Raise" -> Raise(called, "ValueError", "boom")
                [] OTHER -> Raise(called, "SystemExit", "")
         [] s.kind = "Expr" /\ s.func # "__rec" ->
              CASE s.test \in {"T", "Warn"} -> [st EXCEPT !.emitted = @ \cup {st.out}]
                [] s.test = "Redirect" -> [st EXCEPT !.out = "other"]
                [] s.test = "Raise" -> Raise(st, "ValueError", "boom")
                [] OTHER -> Raise(st, "SystemExit", "")
         [] s.kind = "For" -> ExecStmts(Repeat(s.body, s.iters), st, scope)
         [] s.kind = "FunctionDef" ->
              IF scope = "module" /\ s.name = "check"
              THEN [st EXCEPT !.env = [kind |-> "function", node |-> s]]
              ELSE st
         [] s.kind = "Assign" ->
              IF scope = "module" /\ s.name = "check"
              THEN [st EXCEPT !.env = [kind |-> "nonfunction", node |-> s]]
              ELSE st
         [] OTHER -> st

ExecStmts(stmts, st, scope) ==
    IF stmts = <<>> \/ st.exc # NoExc THEN st
    ELSE ExecStmts(Tail(stmts), ExecStmt(Head(stmts), st, scope), scope)

\* What compile() finds in a tree that parsed.
RECURSIVE HasWarn(_)
HasWarn(nodes) ==
    \E i \in DOMAIN nodes : nodes[i].test = "Warn" \/ HasWarn(nodes[i].body)

ReturnOutsideFunction(tree) == \E i \in DOMAIN tree.body : tree.body[i].kind = "Return"

\* ------------------------------------------------------------- quiet_io
quiet_io_enter(out, err) == [old |-> <<out, err>>, out |-> DevNull, err |-> DevNull]

\* Variant of the exit: the streams put back only on a normal return.
quiet_io_exit_no_finally(old, out, err, e) == IF e = NoExc THEN old ELSE <<out, err>>

\* The finally clause: the saved streams, whatever happened inside the scope.
quiet_io_exit(old, out, err, e) == old

\* ------------------------------------------- run_check_and_count_asserts
NoEnv == [kind |-> "absent", node |-> ModuleNode(<<>>)]
NoResult == [total |-> -1, passed |-> -1, failed |-> -1, failures |-> <<>>]
NotRun == <<"-", "-">>

\* Variant of the lookup: only `"check" not in env`.
check_missing_no_isinstance(e) == e.kind = "absent"

\* "check" not in env or not isinstance(env["check"], FunctionType)
check_missing(e) == e.kind = "absent" \/ e.kind # "function"

\* Variant of the tally: total leaves out the records of line 0.
tally_excluding_errors(recs) ==
    LET IsBool(r) == r[2] \in BOOLEAN /\ r[1] # 0
        IsTrue(r) == r[2] = TRUE
        IsFalse(r) == r[2] = FALSE
    IN [total |-> Len(SelectSeq(recs, IsBool)),
        passed |-> Len(SelectSeq(recs, IsTrue)),
        failed |-> Len(SelectSeq(recs, IsFalse)),
        failures |-> SelectSeq(recs, IsFalse)]

\* The four values returned after check has run.
tally(recs) ==
    LET IsBool(r) == r[2] \in BOOLEAN
        IsTrue(r) == r[2] = TRUE
        IsFalse(r) == r[2] = FALSE
    IN [total |-> Len(SelectSeq(recs, IsBool)),
        passed |-> Len(SelectSeq(recs, IsTrue)),
        failed |-> Len(SelectSeq(recs, IsFalse)),
        failures |-> SelectSeq(recs, IsFalse)]

import_error_result(e) ==
    [total |-> 0, passed |-> 0, failed |-> 1,
     failures |-> << <<0, FALSE, ErrStr("Test import error", e)>> >>]

missing_check_result ==
    [total |-> 0, passed |-> 0, failed |-> 1,
     failures |-> << <<0, FALSE, PyStr("Missing check(candidate) in test")>> >>]

VARIABLES
    test_code,      \* the test source handed to run_check_and_count_asserts
    caller,         \* sys.stdout, sys.stderr at the call
    sys_stdout, sys_stderr,
    pc,             \* the position in run_check_and_count_asserts
    tree,           \* the instrumented tree
    env,            \* env["check"]
    records,
    exc,            \* the exception in flight
    old,            \* old_out, old_err of the open quiet_io scope
    result,         \* what the call returned
    phase_io,       \* the streams installed while each phase ran
    emitted,        \* the streams that were written to
    check_invoked,  \* env["check"](candidate_func) was called
    calls           \* evaluations of an assertion's expression inside check

vars == <<test_code, caller, sys_stdout, sys_stderr, pc, tree, env, records, exc,
          old, result, phase_io, emitted, check_invoked, calls>>

\* The coverage readers and the summary tables (convergence.parse_coverage_xml,
\* summarize_pytest_cov_style, compress_line_ranges and the table rows of the
\* two summary scripts): one call of each per run of the script.
VARIABLES
    script,         \* the script that runs
    xml_path,       \* the report file handed to parse_coverage_xml
    parsed,         \* what the calls of parse_coverage_xml returned, in order
    cov_entry,      \* the coverage.json entry found for the solution file
    row,            \* the table row main builds for it
    cells           \* the rendered Br%, Line% and Missing cells of the row

coverage_vars == <<script, xml_path, parsed, cov_entry, row, cells>>

NotCalled == [kind |-> "not called"]

\* No summary script runs.
CoverageIdle ==
    /\ script = "none"
    /\ xml_path = NotCalled
    /\ parsed = <<>>
    /\ cov_entry = NotCalled
    /\ row = NotCalled
    /\ cells = NotCalled

\* The feedback loop of convergence.py: the files it leaves behind and the
\* state of one run of main.
VARIABLES
    tests_dir,      \* TESTS_DIR: the test file of each round, if any
    xml_files,      \* TESTS_DIR: coverage_iter_NN.xml of each round
    log_files,      \* TESTS_DIR: the run that wrote pytest_output_iter_NN.log
    error_files,    \* TESTS_DIR: rounds with a coverage_parse_error_iter_NN.txt
    results_file,   \* RESULTS_FILE, the lines appended so far
    pending,        \* a report written out but not yet visible at its path
    run,            \* the runs of main started so far
    loop_pc,        \* the position in main
    iter_idx,       \* the round index i of main's loop
    prior_hint,
    prior_tests,
    llm_tests,      \* the completion of the round
    polls,          \* the sleeps of wait_for_file so far
    error,          \* the exception that ended the run
    requests,       \* the completions this run requested: round and hint given
    rep,            \* the output of the run's last "coverage report -m"
    installation,   \* what the pre-flight checks of the run found
    xml_written     \* TESTS_DIR: the run whose "coverage xml" wrote each report

loop_vars == <<tests_dir, xml_files, log_files, error_files, results_file, pending,
               run, loop_pc, iter_idx, prior_hint, prior_tests, llm_tests, polls, error,
               requests, rep, installation, xml_written>>

\* convergence.py does not run and has left nothing behind.
LoopIdle ==
    /\ tests_dir = <<>>
    /\ xml_files = <<>>
    /\ log_files = <<>>
    /\ error_files = {}
    /\ results_file = <<>>
    /\ pending = NotCalled
    /\ run = 0
    /\ loop_pc = "not run"
    /\ iter_idx = 0
    /\ prior_hint = NotCalled
    /\ prior_tests = NotCalled
    /\ llm_tests = NotCalled
    /\ polls = 0
    /\ error = NotCalled
    /\ requests = <<>>
    /\ rep = NotCalled
    /\ installation = NotCalled
    /\ xml_written = <<>>

\* The batch runners (main of humaneval_coverage_summary.py and of
\* run_humaneval_openai.py), interpret_result of the two summary scripts, and
\* test_humaneval_base of test_humaneval_baseline.py.
VARIABLES
    batch_script,   \* the batch runner that runs
    sol_dir,        \* the solution files of the directory
    sol_files,      \* files = discover_solution_files(sol_dir)
    sol_idx,        \* how many of them the loop has taken
    grand_total, grand_pass, grand_fail,
    rows,           \* the rows of the combined table
    printed,        \* the per-file lines printed, and the summary
    loaded,         \* the files load_module was called on
    executed,       \* the files run_check_and_count_asserts was called on
    batch_pc,       \* the position in main
    note_args,      \* the arguments of a call of interpret_result
    notes,          \* what each copy of interpret_result returned
    solution_path,  \* the parameter of test_humaneval_base
    outcome         \* how pytest reports the test

batch_vars == <<batch_script, sol_dir, sol_files, sol_idx, grand_total, grand_pass,
                grand_fail, rows, printed, loaded, executed, batch_pc, note_args,
                notes, solution_path, outcome>>

\* None of them runs.
BatchIdle ==
    /\ batch_script = "none"
    /\ sol_dir = {}
    /\ sol_files = <<>>
    /\ sol_idx = 0
    /\ grand_total = 0
    /\ grand_pass = 0
    /\ grand_fail = 0
    /\ rows = <<>>
    /\ printed = <<>>
    /\ loaded = <<>>
    /\ executed = <<>>
    /\ batch_pc = "not run"
    /\ note_args = NotCalled
    /\ notes = NotCalled
    /\ solution_path = NotCalled
    /\ outcome = NotCalled

Init ==
    /\ test_code \in TestSources
    /\ caller \in CallerStreams
    /\ sys_stdout = caller[1]
    /\ sys_stderr = caller[2]
    /\ pc = "call"
    /\ tree = ModuleNode(<<>>)
    /\ env = NoEnv
    /\ records = <<>>
    /\ exc = NoExc
    /\ old = NotRun
    /\ result = NoResult
    /\ phase_io = [compile |-> NotRun, exec |-> NotRun, check |-> NotRun]
    /\ emitted = {}
    /\ check_invoked = FALSE
    /\ calls = 0
    /\ CoverageIdle
    /\ LoopIdle
    /\ BatchIdle

\* Where an exception raised in the first try block goes.
AfterImportRaise(e) == IF except_import(e) THEN "except_import" ELSE "propagated"
AfterRuntimeRaise(e) == IF except_runtime(e) THEN "except_runtime" ELSE "propagated"

\* _instrument_test_code(test_code), inside the first try, outside quiet_io.
Instrument ==
    /\ UNCHANGED <<coverage_vars, loop_vars, batch_vars>>
    /\ pc = "call"
    /\ IF test_code.ok
       THEN /\ tree' = _instrument_test_code(test_code)
            /\ pc' = "compile"
            /\ exc' = exc
       ELSE /\ tree' = tree
            /\ exc' = Exc("SyntaxError", "invalid syntax")
            /\ pc' = AfterImportRaise(exc')
    /\ UNCHANGED <<test_code, caller, sys_stdout, sys_stderr, env, records, old,
                   result, phase_io, emitted, check_invoked, calls>>

\* compile(tree, ...), inside the first try, outside quiet_io: a warning of the
\* compiler is written to the sys.stderr installed at that moment.
Compile ==
    /\ UNCHANGED <<coverage_vars, loop_vars, batch_vars>>
    /\ pc = "compile"
    /\ phase_io' = [phase_io EXCEPT !.compile = <<sys_stdout, sys_stderr>>]
    /\ emitted' = IF HasWarn(tree.body) THEN emitted \cup {sys_stderr} ELSE emitted
    /\ IF ReturnOutsideFunction(tree)
       THEN /\ exc' = Exc("SyntaxError", "'return' outside function")
            /\ pc' = AfterImportRaise(exc')
       ELSE /\ exc' = exc
            /\ pc' = "enter_exec"
    /\ UNCHANGED <<test_code, caller, sys_stdout, sys_stderr, tree, env, records,
                   old, result, check_invoked, calls>>

\* Entering `with quiet_io():`, before exec and before check(candidate).
QuietEnter ==
    /\ UNCHANGED <<coverage_vars, loop_vars, batch_vars>>
    /\ pc \in {"enter_exec", "enter_check"}
    /\ LET q == quiet_io_enter(sys_stdout, sys_stderr)
       IN /\ old' = q.old
          /\ sys_stdout' = q.out
          /\ sys_stderr' = q.err
    /\ pc' = IF pc = "enter_exec" THEN "exec" ELSE "check"
    /\ UNCHANGED <<test_code, caller, tree, env, records, exc, result, phase_io,
                   emitted, check_invoked, calls>>

StateOf == [env |-> env, records |-> records, exc |-> exc, out |-> sys_stdout,
            err |-> sys_stderr, emitted |-> emitted, calls |-> calls]

\* exec(compiled, env, env): the module body runs in env.
ExecModule ==
    /\ UNCHANGED <<coverage_vars, loop_vars, batch_vars>>
    /\ pc = "exec"
    /\ phase_io' = [phase_io EXCEPT !.exec = <<sys_stdout, sys_stderr>>]
    /\ LET st == ExecStmts(tree.body, StateOf, "module")
       IN /\ env' = st.env
          /\ records' = st.records
          /\ exc' = st.exc
          /\ sys_stdout' = st.out
          /\ sys_stderr' = st.err
          /\ emitted' = st.emitted
          /\ calls' = st.calls
    /\ pc' = "exit_exec"
    /\ UNCHANGED <<test_code, caller, tree, old, result, check_invoked>>

\* Leaving a quiet_io scope, by return or by an exception passing through.
QuietExit ==
    /\ UNCHANGED <<coverage_vars, loop_vars, batch_vars>>
    /\ pc \in {"exit_exec", "exit_check"}
    /\ LET restored == quiet_io_exit(old, sys_stdout, sys_stderr, exc)
       IN /\ sys_stdout' = restored[1]
          /\ sys_stderr' = restored[2]
    /\ pc' = IF pc = "exit_exec"
             THEN IF exc = NoExc THEN "lookup" ELSE AfterImportRaise(exc)
             ELSE IF exc = NoExc THEN "tally" ELSE AfterRuntimeRaise(exc)
    /\ UNCHANGED <<test_code, caller, tree, env, records, exc, old, result,
                   phase_io, emitted, check_invoked, calls>>

\* except Exception as e: return 0, 0, 1, [(0, False, "Test import error: ...")]
ExceptImport ==
    /\ UNCHANGED <<coverage_vars, loop_vars, batch_vars>>
    /\ pc = "except_import"
    /\ result' = import_error_result(exc)
    /\ exc' = NoExc
    /\ pc' = "returned"
    /\ UNCHANGED <<test_code, caller, sys_stdout, sys_stderr, tree, env, records,
                   old, phase_io, emitted, check_invoked, calls>>

\* if "check" not in env or not isinstance(env["check"], FunctionType): return ...
Lookup ==
    /\ UNCHANGED <<coverage_vars, loop_vars, batch_vars>>
    /\ pc = "lookup"
    /\ IF check_missing(env)
       THEN /\ result' = missing_check_result
            /\ pc' = "returned"
       ELSE /\ result' = result
            /\ pc' = "enter_check"
    /\ UNCHANGED <<test_code, caller, sys_stdout, sys_stderr, tree, env, records,
                   exc, old, phase_io, emitted, check_invoked, calls>>

\* env["check"](candidate_func): one positional argument.
InvokeCheck ==
    /\ UNCHANGED <<coverage_vars, loop_vars, batch_vars>>
    /\ pc = "check"
    /\ phase_io' = [phase_io EXCEPT !.check = <<sys_stdout, sys_stderr>>]
    /\ check_invoked' = TRUE
    /\ LET st == IF env.kind # "function"
                 THEN Raise(StateOf, "TypeError", "object is not callable")
                 ELSE IF Len(env.node.args) # 1
                 THEN Raise(StateOf, "TypeError", "missing required positional argument")
                 ELSE ExecStmts(env.node.body, StateOf, "function")
       IN /\ records' = st.records
          /\ exc' = st.exc
          /\ sys_stdout' = st.out
          /\ sys_stderr' = st.err
          /\ emitted' = st.emitted
          /\ calls' = st.calls
    /\ pc' = "exit_check"
    /\ UNCHANGED <<test_code, caller, tree, env, old, result>>

\* except Exception as e: records.append((0, False, "Runtime error: ..."))
ExceptRuntime ==
    /\ UNCHANGED <<coverage_vars, loop_vars, batch_vars>>
    /\ pc = "except_runtime"
    /\ records' = Append(records, <<0, FALSE, ErrStr("Runtime error", exc)>>)
    /\ exc' = NoExc
    /\ pc' = "tally"
    /\ UNCHANGED <<test_code, caller, sys_stdout, sys_stderr, tree, env, old,
                   result, phase_io, emitted, check_invoked, calls>>

\* total, passed, failed, failures_detail and the return.
Tally ==
    /\ UNCHANGED <<coverage_vars, loop_vars, batch_vars>>
    /\ pc = "tally"
    /\ result' = tally(records)
    /\ pc' = "returned"
    /\ UNCHANGED <<test_code, caller, sys_stdout, sys_stderr, tree, env, records,
                   exc, old, phase_io, emitted, check_invoked, calls>>

Next ==
    \/ Instrument
    \/ Compile
    \/ QuietEnter
    \/ ExecModule
    \/ QuietExit
    \/ ExceptImport
    \/ Lookup
    \/ InvokeCheck
    \/ ExceptRuntime
    \/ Tally

Spec == Init /\ [][Next]_vars

\* ===================================================== reference semantics
\* What the claims speak of, stated on the source tree as ast.parse gives it,
\* apart from the transformers and the interpreter above.
Orig == ast_parse(test_code)

IsCheckRoutine(n) ==
    n.kind = "FunctionDef" /\ n.name = "check"
    /\ "candidate" \in {n.args[i] : i \in DOMAIN n.args}

IsRecCall(n) == n.kind = "Expr" /\ n.func = "__rec"

\* The assertion statements of a statement list, at any depth, in source order.
RECURSIVE AssertsIn(_)
AssertsIn(nodes) ==
    IF nodes = <<>> THEN <<>>
    ELSE LET n == Head(nodes)
         IN (IF n.kind = "Assert" THEN <<n>> ELSE AssertsIn(n.body))
            \o AssertsIn(Tail(nodes))

\* The statements calling __rec, at any depth, in source order.
RECURSIVE RecCallsIn(_)
RecCallsIn(nodes) ==
    IF nodes = <<>> THEN <<>>
    ELSE LET n == Head(nodes)
         IN (IF IsRecCall(n) THEN <<n>> ELSE RecCallsIn(n.body))
            \o RecCallsIn(Tail(nodes))

\* The routines defined at module scope (also under a module-level block).
RECURSIVE RoutinesIn(_)
RoutinesIn(nodes) ==
    IF nodes = <<>> THEN <<>>
    ELSE LET n == Head(nodes)
         IN (IF n.kind = "FunctionDef" THEN <<n>> ELSE RoutinesIn(n.body))
            \o RoutinesIn(Tail(nodes))

ChecksOf(t) == SelectSeq(RoutinesIn(t.body), IsCheckRoutine)

\* The assertion statements that lie outside every check(candidate) routine.
RECURSIVE OutsideAsserts(_)
OutsideAsserts(nodes) ==
    IF nodes = <<>> THEN <<>>
    ELSE LET n == Head(nodes)
         IN (IF IsCheckRoutine(n) THEN <<>>
             ELSE IF n.kind = "Assert" THEN <<n>>
             ELSE OutsideAsserts(n.body))
            \o OutsideAsserts(Tail(nodes))

\* The simple statements of a routine body in the order a run that nothing
\* interrupts executes them.
RECURSIVE Flatten(_)
Flatten(nodes) ==
    IF nodes = <<>> THEN <<>>
    ELSE LET n == Head(nodes)
         IN (IF n.kind = "For" THEN Flatten(Repeat(n.body, n.iters))
             ELSE IF n.kind = "FunctionDef" THEN <<>>
             ELSE <<n>>)
            \o Flatten(Tail(nodes))

Min(S) == CHOOSE x \in S : \A y \in S : x <= y

\* What calling routine r of the source with one argument must give when its
\* assertions are recorded (recording = TRUE) or left as they are: the records
\* in order, and the error that ends the call, if any.
Expected(r, recording) ==
    LET flat == Flatten(r.body)
        Stops(s) == \/ s.test \in {"Raise", "Exit"}
                    \/ ~recording /\ s.kind = "Assert" /\ s.test = "F"
        stop == {i \in DOMAIN flat : Stops(flat[i])}
        n == IF stop = {} THEN Len(flat) ELSE Min(stop) - 1
        IsAssert(s) == s.kind = "Assert"
        ran == SelectSeq(SubSeq(flat, 1, n), IsAssert)
        last == flat[Min(stop)]
    IN IF Len(r.args) # 1
       THEN [recs |-> <<>>, err |-> Exc("TypeError", "missing required positional argument")]
       ELSE [recs |-> IF recording
                      THEN [i \in DOMAIN ran |->
                              <<ran[i].lineno, ran[i].test = "T",
                                IF ran[i].msg = NoMsg THEN PyNone ELSE PyStr("m")>>]
                      ELSE <<>>,
             err |-> IF stop = {} THEN NoExc
                     ELSE IF last.test = "Raise" THEN Exc("ValueError", "boom")
                     ELSE IF last.test = "Exit" THEN Exc("SystemExit", "")
                     ELSE Exc("AssertionError", IF last.msg = NoMsg THEN "" ELSE "m")]

\* The routine of the source that env["check"] was made from.
Ran == CHOOSE r \in {RoutinesIn(Orig.body)[i] : i \in DOMAIN RoutinesIn(Orig.body)} :
          r.lineno = env.node.lineno

CheckRan == check_invoked /\ env.kind = "function"

Count(recs, b) == Cardinality({i \in DOMAIN recs : recs[i][2] = b})

RuntimeErrors(recs) == {i \in DOMAIN recs : recs[i][3].prefix = "Runtime error"}

\* ================================================================== claims

\* C1 as claimed: a check routine holding k assertion statements, none of
\* which raises, yields exactly k records (total = k).
C1_Original ==
    (pc = "returned" /\ CheckRan /\ IsCheckRoutine(Ran)
        /\ Expected(Ran, TRUE).err = NoExc)
    => result.total = Len(AssertsIn(Ran.body))

\* C1 as amended: when no assertion of check(candidate) raises, the call
\* returns one record per execution of an assertion statement, in execution
\* order and whatever number of them are false; total, passed and failed count
\* them, and total = k when the k assertions are all top-level statements of
\* the routine.
C1_OneRecordPerExecutedAssertion ==
    (CheckRan /\ IsCheckRoutine(Ran) /\ Expected(Ran, TRUE).err = NoExc)
    => /\ pc \notin {"except_runtime", "propagated"}
       /\ pc \in {"exit_check", "tally", "returned"} => records = Expected(Ran, TRUE).recs
       /\ pc = "returned" =>
            /\ result.total = Len(records)
            /\ result.passed = Count(Expected(Ran, TRUE).recs, TRUE)
            /\ result.failed = Count(Expected(Ran, TRUE).recs, FALSE)
            /\ (\A i \in DOMAIN Ran.body : Ran.body[i].kind = "Assert")
                 => result.total = Len(Ran.body)

\* Five assertions, the 2nd and the 4th false: total=5, passed=3, failed=2.
C1_Witness ==
    /\ pc = "returned" /\ CheckRan /\ IsCheckRoutine(Ran)
    /\ [i \in DOMAIN Ran.body |-> Ran.body[i].test] = <<"T", "F", "T", "F", "T">>
    /\ \A i \in DOMAIN Ran.body : Ran.body[i].kind = "Assert"
    /\ result.total = 5 /\ result.passed = 3 /\ result.failed = 2

CallArgs(cs) == [i \in DOMAIN cs |-> <<cs[i].test, cs[i].msg, cs[i].arg3>>]

AssertArgs(as) ==
    [i \in DOMAIN as |->
        <<as[i].test, IF as[i].msg = NoMsg THEN ConstNone ELSE as[i].msg, as[i].lineno>>]

Rewritten(o, t) ==
    /\ Len(o) = Len(t)
    /\ \A i \in DOMAIN o :
         /\ AssertsIn(t[i].body) = <<>>
         /\ CallArgs(RecCallsIn(t[i].body)) = AssertArgs(AssertsIn(o[i].body))

\* C2: in the rewritten tree, and in the tree parsed from its rendering, every
\* check(candidate) routine holds no assertion statement and, for its k
\* assertions in order, k calls __rec(test, msg or None, original lineno).
C2_CheckFullyRewritten ==
    (pc # "call" /\ test_code.ok)
    => /\ Rewritten(ChecksOf(Orig), ChecksOf(tree))
       /\ Rewritten(ChecksOf(Orig), ChecksOf(ast_parse(ast_unparse(tree))))

\* A check with two or more assertions, one nested, with and without a message,
\* in a source whose line numbers differ from those of its rendering.
C2_Witness ==
    /\ pc # "call" /\ test_code.ok /\ test_code.lead > 0
    /\ Len(ChecksOf(tree)) = 1
    /\ LET c == ChecksOf(tree)[1]
       IN /\ Len(RecCallsIn(c.body)) >= 2
          /\ \E i \in DOMAIN c.body : c.body[i].kind = "For"
          /\ \E n \in {RecCallsIn(c.body)[i] : i \in DOMAIN RecCallsIn(c.body)} :
                n.msg = MsgExpr /\ n.arg3 > 2
          /\ \E n \in {RecCallsIn(c.body)[i] : i \in DOMAIN RecCallsIn(c.body)} :
                n.msg = ConstNone

\* C3: the assertion statements outside check(candidate) (in other routines
\* and in module-level code) are the same nodes before and after the rewrite,
\* and every routine that is not check(candidate) is returned whole.
C3_OutsideCheckUntouched ==
    (pc # "call" /\ test_code.ok)
    => /\ OutsideAsserts(tree.body) = OutsideAsserts(Orig.body)
       /\ RecCallsIn(SelectSeq(RoutinesIn(tree.body), LAMBDA n : ~IsCheckRoutine(n))) = <<>>
       /\ \A i \in DOMAIN RoutinesIn(Orig.body) :
            ~IsCheckRoutine(RoutinesIn(Orig.body)[i])
            => RoutinesIn(tree.body)[i] = RoutinesIn(Orig.body)[i]

\* A rewritten check beside a helper routine that holds an assertion.
C3_Witness ==
    /\ pc # "call" /\ test_code.ok
    /\ \E i \in DOMAIN tree.body :
         /\ tree.body[i].kind = "FunctionDef" /\ tree.body[i].name = "helper"
         /\ AssertsIn(tree.body[i].body) # <<>>
    /\ RecCallsIn(tree.body) # <<>>

C5_SyntheticExcludedFromTotal ==
    (pc = "returned" /\ check_invoked /\ RuntimeErrors(records) # {})
    => /\ result.total = Len(records) - 1
       /\ \E i \in DOMAIN result.failures : result.failures[i][3].prefix = "Runtime error"

\* C6: when an error (a class derived from Exception) ends check, the call
\* still returns: the records collected before the error are kept in order,
\* followed by exactly one synthetic failing record (line 0) with the error's
\* class and message.
C6_ErrorInCheckRecorded ==
    LET e == Expected(Ran, IsCheckRoutine(Ran))
    IN (CheckRan /\ e.err # NoExc /\ e.err.type # "SystemExit")
       => /\ pc # "propagated"
          /\ pc \in {"tally", "returned"}
               => records = Append(e.recs, <<0, FALSE, ErrStr("Runtime error", e.err)>>)
          /\ pc = "returned"
               => /\ result.failures # <<>>
                  /\ result.failures[Len(result.failures)]
                       = <<0, FALSE, ErrStr("Runtime error", e.err)>>
                  /\ result.failed = Count(e.recs, FALSE) + 1

\* A return after an error raised behind a passing and a failing assertion.
C6_Witness ==
    /\ pc = "returned" /\ CheckRan /\ IsCheckRoutine(Ran)
    /\ Len(records) = 3
    /\ records[1][2] = FALSE /\ records[1][1] > 0
    /\ records[2][2] = TRUE
    /\ records[3] = <<0, FALSE, ErrStr("Runtime error", Exc("ValueError", "boom"))>>

\* The module-level statements that exec runs, in order.
ModuleRunsClean ==
    /\ test_code.ok
    /\ ~ \E i \in DOMAIN Orig.body : Orig.body[i].kind = "Return"
    /\ \A i \in DOMAIN Flatten(Orig.body) :
         LET s == Flatten(Orig.body)[i]
         IN ~ (s.test \in {"Raise", "Exit"} \/ (s.kind = "Assert" /\ s.test = "F"))

\* C7: when the test module has run and env holds no function named check,
\* the call returns 0, 0, 1 with the one record (0, False, "Missing
\* check(candidate) in test") and check is never called.
C7_MissingCheck ==
    (ModuleRunsClean /\ env.kind # "function"
        /\ pc \notin {"call", "compile", "enter_exec", "exec"})
    => /\ pc \in {"exit_exec", "lookup", "returned"}
       /\ ~check_invoked /\ calls = 0
       /\ pc = "returned"
            => /\ result.total = 0 /\ result.passed = 0 /\ result.failed = 1
               /\ result.failures =
                    << <<0, FALSE, PyStr("Missing check(candidate) in test")>> >>

\* A return for a module that binds check to something that is no function.
C7_Witness ==
    /\ pc = "returned" /\ ModuleRunsClean /\ env.kind = "nonfunction"
    /\ result.failed = 1

\* C8: a test source that does not parse never makes the call raise: it
\* returns 0, 0, 1 with the one record (0, False, "Test import error:
\* SyntaxError: ...") and neither check nor the candidate is called.
C8_SyntaxErrorBecomesFailure ==
    ~test_code.ok
    => /\ pc \in {"call", "except_import", "returned"}
       /\ ~check_invoked /\ calls = 0 /\ records = <<>>
       /\ pc = "returned"
            => /\ result.total = 0 /\ result.passed = 0 /\ result.failed = 1
               /\ result.failures =
                    << <<0, FALSE,
                         ErrStr("Test import error", Exc("SyntaxError", "invalid syntax"))>> >>

C8_Witness == ~test_code.ok /\ pc = "returned" /\ result.failed = 1

InScope == {"exec", "exit_exec", "check", "exit_check"}

\* C9: outside the quiet_io scopes, so after every exit from one (by return or
\* by an exception) and after the call, however it ended, sys.stdout and
\* sys.stderr are the streams of the caller; inside a scope the saved streams
\* are those.
C9_StreamsRestored ==
    /\ pc \notin InScope => <<sys_stdout, sys_stderr>> = caller
    /\ pc \in InScope => old = caller

\* An exception has left a scope in which the test had assigned sys.stdout.
C9_Witness ==
    /\ pc = "propagated" /\ check_invoked
    /\ caller = <<"capture_out", "capture_err">>
    /\ \E i \in DOMAIN Ran.body : Ran.body[i].test = "Redirect"
    /\ <<sys_stdout, sys_stderr>> = caller

\* C10 as claimed: every phase that ran (compile, exec of the module body,
\* check(candidate)) ran with both streams redirected.
C10_EveryPhaseQuiet ==
    \A ph \in {"compile", "exec", "check"} :
        phase_io[ph] # NotRun => phase_io[ph] = <<DevNull, DevNull>>

\* ============================================ coverage readers and summaries
\* convergence.py (parse_coverage_xml), humaneval_coverage_summary.py and
\* generate_summary.py (summarize_pytest_cov_style, compress_line_ranges, the
\* table rows of main).

\* ----------------------------------------------------------------- bounds
\* The highest line number of a missing-lines list.
MaxLine == 11

\* ------------------------------------------------------ strings and floats
\* A str is the sequence of its characters.
Digits == <<"0", "1", "2", "3", "4", "5", "6", "7", "8", "9">>

IsDigit(c) == \E k \in DOMAIN Digits : Digits[k] = c
DigitVal(c) == (CHOOSE k \in DOMAIN Digits : Digits[k] = c) - 1

\* str(n) of an int.
RECURSIVE str(_)
str(n) ==
    IF n < 0 THEN <<"-">> \o str(0 - n)
    ELSE IF n < 10 THEN <<Digits[n + 1]>>
    ELSE str(n \div 10) \o <<Digits[(n % 10) + 1]>>

\* None, and a float as the fraction n/d in lowest terms, d > 0.
None == [kind |-> "None"]

RECURSIVE GCD(_, _)
GCD(a, b) == IF b = 0 THEN a ELSE GCD(b, a % b)

Abs(x) == IF x < 0 THEN 0 - x ELSE x

Float(n, d) ==
    LET g == GCD(Abs(n), d)
    IN [kind |-> "float", n |-> n \div g, d |-> d \div g]

IsFloat(x) == x.kind = "float"
FromInt(k) == Float(k, 1)

\* x * y, x / y (y # 0), x < y and x <= y of floats.
Mul(x, y) == Float(x.n * y.n, x.d * y.d)
Div(x, y) ==
    IF y.n < 0 THEN Float((0 - x.n) * y.d, x.d * (0 - y.n))
    ELSE Float(x.n * y.d, x.d * y.n)
Less(x, y) == x.n * y.d < y.n * x.d
LessEq(x, y) == x.n * y.d <= y.n * x.d

\* The value of a run of decimal digits.
RECURSIVE DigitsVal(_)
DigitsVal(cs) ==
    IF cs = <<>> THEN 0
    ELSE 10 * DigitsVal(SubSeq(cs, 1, Len(cs) - 1)) + DigitVal(cs[Len(cs)])

AllDigits(cs) == \A k \in DOMAIN cs : IsDigit(cs[k])

RECURSIVE Pow10(_)
Pow10(k) == IF k = 0 THEN 1 ELSE 10 * Pow10(k - 1)

\* float(val) of a str: an optional sign, digits, an optional point and
\* digits. The result is the float, or the ValueError float raises.
ValueError == [kind |-> "ValueError"]

float(val) ==
    LET neg == val # <<>> /\ val[1] = "-"
        mag == IF neg THEN Tail(val) ELSE val
        dots == {k \in DOMAIN mag : mag[k] = "."}
        whole == IF dots = {} THEN mag
                 ELSE SubSeq(mag, 1, (CHOOSE k \in dots : TRUE) - 1)
        frac == IF dots = {} THEN <<>>
                ELSE SubSeq(mag, (CHOOSE k \in dots : TRUE) + 1, Len(mag))
        n == DigitsVal(whole) * Pow10(Len(frac)) + DigitsVal(frac)
    IN IF /\ Cardinality(dots) <= 1
          /\ AllDigits(whole) /\ AllDigits(frac)
          /\ Len(whole) + Len(frac) > 0
       THEN Float(IF neg THEN 0 - n ELSE n, Pow10(Len(frac)))
       ELSE ValueError

\* ------------------------------------------------- convergence.py, reports
\* A path names no file, or a file and its content: no bytes, bytes that are
\* no well-formed XML, or a document whose root carries attributes (a
\* function from the names present to their str values).
NoFile == [kind |-> "absent"]
EmptyFile == [kind |-> "file", content |-> "empty", attrib |-> <<>>]
MalformedFile == [kind |-> "file", content |-> "malformed", attrib |-> <<>>]
XmlFile(attrib) == [kind |-> "file", content |-> "xml", attrib |-> attrib]

exists(path) == path.kind = "file"
st_size(path) == IF path.content = "empty" THEN 0 ELSE 1

\* root.attrib.get(name, default)
attrib_get(root, name, default) ==
    IF name \in DOMAIN root.attrib THEN root.attrib[name] ELSE default

\* to_pct without the root attribute: the bug of reading the counts only.
to_pct_ignoring_rate(root, attr_name) == None

\* def to_pct(attr_name), closed over root.
to_pct(root, attr_name) ==
    IF attr_name \notin DOMAIN root.attrib THEN None
    ELSE LET val == attrib_get(root, attr_name, None)
         IN IF float(val) = ValueError THEN None
            ELSE Mul(float(val), FromInt(100))

\* The fallback of the counts that makes up a zero when there is no count.
from_counts_zero_default(root, valid_name, covered_name) ==
    LET valid == float(attrib_get(root, valid_name, <<"0">>))
        covered == float(attrib_get(root, covered_name, <<"0">>))
    IN IF valid = ValueError \/ covered = ValueError THEN FromInt(0)
       ELSE IF Less(FromInt(0), valid)
       THEN Mul(FromInt(100), Div(covered, valid))
       ELSE FromInt(0)

\* The try block that derives a percentage from the counts; None when it
\* assigns nothing (a ValueError passed over, or a count that is not > 0).
from_counts(root, valid_name, covered_name) ==
    LET valid == float(attrib_get(root, valid_name, <<"0">>))
        covered == float(attrib_get(root, covered_name, <<"0">>))
    IN IF valid = ValueError \/ covered = ValueError THEN None
       ELSE IF Less(FromInt(0), valid)
       THEN Mul(FromInt(100), Div(covered, valid))
       ELSE None

Return(line_pct, branch_pct) ==
    [kind |-> "return", line_pct |-> line_pct, branch_pct |-> branch_pct]
Raised(type) == [kind |-> "raise", type |-> type]

\* parse_coverage_xml(xml_path): the pair it returns, or the ParseError that
\* ET.parse raises on bytes that are no XML document.
parse_coverage_xml(path) ==
    IF ~exists(path) \/ st_size(path) = 0 THEN Return(None, None)
    ELSE IF path.content = "malformed" THEN Raised("ParseError")
    ELSE LET root == path
             line_pct == to_pct(root, "line-rate")
             branch_pct == to_pct(root, "branch-rate")
         IN Return(IF line_pct = None
                   THEN from_counts(root, "lines-valid", "lines-covered")
                   ELSE line_pct,
                   IF branch_pct = None
                   THEN from_counts(root, "branches-valid", "branches-covered")
                   ELSE branch_pct)

\* The reports parsed: every choice, for each root attribute, of leaving it
\* out or giving it one of a few values.
Missing == <<"absent">>
RateStrings == {<<"a", "b", "c">>, <<"0">>, <<"0", ".", "2", "5">>, <<"1", ".", "5">>}
CountStrings == {<<"a", "b", "c">>, <<"0">>, <<"-", "4">>, <<"4">>, <<"8">>}
RateNames == {"line-rate", "branch-rate"}
CountNames == {"lines-valid", "lines-covered", "branches-valid", "branches-covered"}

Present(f) == [a \in {b \in DOMAIN f : f[b] # Missing} |-> f[a]]

Attribs ==
    {Present([a \in RateNames \cup CountNames |->
                 IF a \in RateNames THEN r[a] ELSE c[a]]) :
        r \in [RateNames -> RateStrings \cup {Missing}],
        c \in [CountNames -> CountStrings \cup {Missing}]}

Reports == {NoFile, EmptyFile, MalformedFile} \cup {XmlFile(a) : a \in Attribs}

\* ------------------------------------------------ coverage.json and tables
\* A coverage.json file entry: {} when find_file_entry finds none, else its
\* summary (a function from the keys present to ints), its missing_lines and
\* its missing_branches (a list of arcs, or null).
EmptyEntry == [kind |-> "empty"]
Null == [isnone |-> TRUE, items |-> <<>>]
Arcs(k) == [isnone |-> FALSE, items |-> [j \in 1..k |-> <<j, j + 1>>]]
Entry(summary, missing_lines, missing_branches) ==
    [kind |-> "entry", summary |-> summary, missing_lines |-> missing_lines,
     missing_branches |-> missing_branches]

\* summary.get(key, 0)
summary_get(summary, key) == IF key \in DOMAIN summary THEN summary[key] ELSE 0

\* sorted(xs) of a list of ints.
RECURSIVE Insert(_, _)
Insert(x, xs) ==
    IF xs = <<>> THEN <<x>>
    ELSE IF x <= Head(xs) THEN <<x>> \o xs
    ELSE <<Head(xs)>> \o Insert(x, Tail(xs))

RECURSIVE sorted(_)
sorted(xs) == IF xs = <<>> THEN <<>> ELSE Insert(Head(xs), sorted(Tail(xs)))

max(a, b) == IF a >= b THEN a ELSE b

\* covered / total * 100.0 if total > 0 else 0.0
percent(covered, total) ==
    IF total > 0
    THEN Mul(Div(FromInt(covered), FromInt(total)), FromInt(100))
    ELSE FromInt(0)

Summary(stmts, miss, branch, brpart, line_percent, branch_percent, missing_lines) ==
    [stmts |-> stmts, miss |-> miss, branch |-> branch, brpart |-> brpart,
     line_percent |-> line_percent, branch_percent |-> branch_percent,
     missing_lines |-> missing_lines]

\* humaneval_coverage_summary.summarize_pytest_cov_style(entry)
summarize_pytest_cov_style(entry) ==
    IF entry.kind = "empty" THEN Summary(0, 0, 0, 0, FromInt(0), FromInt(0), <<>>)
    ELSE LET summary == entry.summary
             stmts == summary_get(summary, "num_statements")
             covered_lines == summary_get(summary, "covered_lines")
             miss == max(stmts - covered_lines, 0)
             missing_lines == sorted(entry.missing_lines)
             num_branches == summary_get(summary, "num_branches")
             covered_branches == summary_get(summary, "covered_branches")
             missing_branches == entry.missing_branches
             brpart == IF ~missing_branches.isnone
                       THEN Len(missing_branches.items) ELSE 0
         IN Summary(stmts, miss, num_branches, brpart,
                    percent(covered_lines, stmts),
                    percent(covered_branches, num_branches),
                    missing_lines)

\* generate_summary.summarize_pytest_cov_style(entry): the covered branches
\* are the branches less the missing ones.
gs_summarize_pytest_cov_style(entry) ==
    IF entry.kind = "empty" THEN Summary(0, 0, 0, 0, FromInt(0), FromInt(0), <<>>)
    ELSE LET summary == entry.summary
             stmts == summary_get(summary, "num_statements")
             covered_lines == summary_get(summary, "covered_lines")
             miss == max(stmts - covered_lines, 0)
             missing_lines == sorted(entry.missing_lines)
             num_branches == summary_get(summary, "num_branches")
             missing_branches == IF entry.missing_branches.isnone THEN <<>>
                                 ELSE entry.missing_branches.items
             brpart == Len(missing_branches)
             covered_branches == num_branches - brpart
         IN Summary(stmts, miss, num_branches, brpart,
                    percent(covered_lines, stmts),
                    percent(covered_branches, num_branches),
                    missing_lines)

\* str(start) if start == prev else f"{start}-{prev}"
range_str(start, prev) ==
    IF start = prev THEN str(start) ELSE str(start) \o <<"-">> \o str(prev)

\* ", ".join(ranges)
RECURSIVE join(_)
join(ranges) ==
    IF ranges = <<>> THEN <<>>
    ELSE IF Len(ranges) = 1 THEN ranges[1]
    ELSE ranges[1] \o <<",", " ">> \o join(Tail(ranges))

\* The loop of compress_line_ranges over lines[1:], and what follows it.
RECURSIVE compress_loop(_, _, _, _)
compress_loop(rest, start, prev, ranges) ==
    IF rest = <<>> THEN Append(ranges, range_str(start, prev))
    ELSE LET ln == Head(rest)
         IN IF ln = prev + 1
            THEN compress_loop(Tail(rest), start, ln, ranges)
            ELSE compress_loop(Tail(rest), ln, ln,
                               Append(ranges, range_str(start, prev)))

\* compress_line_ranges that starts a new range at every line.
compress_line_ranges_no_runs(lines) == join([k \in DOMAIN lines |-> str(lines[k])])

\* humaneval_coverage_summary.compress_line_ranges(lines)
compress_line_ranges(lines) ==
    IF lines = <<>> THEN <<>>
    ELSE join(compress_loop(Tail(lines), lines[1], lines[1], <<>>))

\* generate_summary.compress_line_ranges(lines)
gs_compress_line_ranges(lines) ==
    IF lines = <<>> THEN <<>>
    ELSE join(compress_loop(Tail(lines), lines[1], lines[1], <<>>))

\* f"{x:.1f}%": x rounded to one decimal, ties to the even digit.
format_1f_pct(x) ==
    LET a == Abs(x.n) * 10
        q == a \div x.d
        r == a % x.d
        t == IF 2 * r > x.d \/ (2 * r = x.d /\ q % 2 = 1) THEN q + 1 ELSE q
    IN (IF x.n < 0 THEN <<"-">> ELSE <<>>)
       \o str(t \div 10) \o <<".">> \o str(t % 10) \o <<"%">>

\* The row main appends for a solution file, as far as coverage goes.
Row(s, missing) ==
    [stmts |-> s.stmts, miss |-> s.miss, branch |-> s.branch, brpart |-> s.brpart,
     cover_pct |-> s.line_percent, branch_pct |-> s.branch_percent,
     missing |-> missing, missing_lines |-> s.missing_lines]

\* humaneval_coverage_summary.main: branch_pct_str, line_pct_str, missing.
render(r) ==
    [branch_pct_str |-> IF r.branch > 0 THEN format_1f_pct(r.branch_pct)
                        ELSE <<"N", "/", "A">>,
     line_pct_str |-> IF r.stmts > 0 THEN format_1f_pct(r.cover_pct)
                      ELSE <<"0", "%">>,
     missing |-> r.missing]

\* generate_summary.main: br_str, ln_str, missing.
gs_render(r) ==
    [branch_pct_str |-> IF r.branch > 0 THEN format_1f_pct(r.branch_pct)
                        ELSE <<"0", "%">>,
     line_pct_str |-> IF r.stmts > 0 THEN format_1f_pct(r.cover_pct)
                      ELSE <<"0", "%">>,
     missing |-> r.missing]

\* ------------------------------------------------------------------ inputs
\* Calls of parse_coverage_xml on one report.
MaxCalls == 2

\* The ascending list of a set of line numbers.
RECURSIVE Ascending(_)
Ascending(S) ==
    IF S = {} THEN <<>>
    ELSE LET m == Min(S) IN <<m>> \o Ascending(S \ {m})

IncreasingLists == {Ascending(S) : S \in SUBSET (1..MaxLine)}

SummaryKeys == {"num_statements", "covered_lines", "num_branches", "covered_branches"}

SummaryValues(key) ==
    CASE key = "num_statements" -> {0, 4}
      [] key = "covered_lines" -> {0, 2, 6}
      [] key = "num_branches" -> {0, 2}
      [] key = "covered_branches" -> {1, 3}

Summaries ==
    UNION {{f \in [K -> 0..6] : \A k \in K : f[k] \in SummaryValues(k)} :
           K \in SUBSET SummaryKeys}

FullyCovered ==
    [k \in SummaryKeys |-> IF k \in {"num_statements", "covered_lines"} THEN 4 ELSE 2]

Entries ==
    {EmptyEntry}
    \cup {Entry(f, ml, mb) : f \in Summaries, ml \in {<<>>, <<3, 1, 2>>},
                             mb \in {Null, Arcs(0), Arcs(1), Arcs(3)}}
    \cup {Entry(FullyCovered, ml, Arcs(0)) : ml \in IncreasingLists}

Scripts == {"convergence", "humaneval_coverage_summary", "generate_summary"}

\* ----------------------------------------------------------- state machine
\* run_check_and_count_asserts is not called.
RunnerIdle ==
    /\ test_code = Source(TRUE, 0, <<>>)
    /\ caller = <<"__stdout__", "__stderr__">>
    /\ sys_stdout = "__stdout__"
    /\ sys_stderr = "__stderr__"
    /\ pc = "not called"
    /\ tree = ModuleNode(<<>>)
    /\ env = NoEnv
    /\ records = <<>>
    /\ exc = NoExc
    /\ old = NotRun
    /\ result = NoResult
    /\ phase_io = [compile |-> NotRun, exec |-> NotRun, check |-> NotRun]
    /\ emitted = {}
    /\ check_invoked = FALSE
    /\ calls = 0

CoverageInit ==
    /\ script \in Scripts
    /\ IF script = "convergence"
       THEN xml_path \in Reports /\ cov_entry = NotCalled
       ELSE xml_path = NotCalled /\ cov_entry \in Entries
    /\ parsed = <<>>
    /\ row = NotCalled
    /\ cells = NotCalled
    /\ RunnerIdle
    /\ LoopIdle
    /\ BatchIdle

\* line_pct, branch_pct = parse_coverage_xml(xml_out)
ParseCoverageXml ==
    /\ script = "convergence"
    /\ Len(parsed) < MaxCalls
    /\ parsed' = Append(parsed, parse_coverage_xml(xml_path))
    /\ UNCHANGED <<script, xml_path, cov_entry, row, cells>>
    /\ UNCHANGED <<vars, loop_vars, batch_vars>>

\* humaneval_coverage_summary.main: summarize_pytest_cov_style(cov_entry),
\* compress_line_ranges(missing_lines), rows.append(...)
BuildRow ==
    /\ script = "humaneval_coverage_summary"
    /\ row = NotCalled
    /\ LET s == summarize_pytest_cov_style(cov_entry)
       IN row' = Row(s, compress_line_ranges(s.missing_lines))
    /\ UNCHANGED <<script, xml_path, parsed, cov_entry, cells>>
    /\ UNCHANGED <<vars, loop_vars, batch_vars>>

\* humaneval_coverage_summary.main: the cells of the row in the table.
RenderRow ==
    /\ script = "humaneval_coverage_summary"
    /\ row # NotCalled
    /\ cells = NotCalled
    /\ cells' = render(row)
    /\ UNCHANGED <<script, xml_path, parsed, cov_entry, row>>
    /\ UNCHANGED <<vars, loop_vars, batch_vars>>

\* generate_summary.main: the same two steps with its own copies.
GsBuildRow ==
    /\ script = "generate_summary"
    /\ row = NotCalled
    /\ LET s == gs_summarize_pytest_cov_style(cov_entry)
       IN row' = Row(s, gs_compress_line_ranges(s.missing_lines))
    /\ UNCHANGED <<script, xml_path, parsed, cov_entry, cells>>
    /\ UNCHANGED <<vars, loop_vars, batch_vars>>

GsRenderRow ==
    /\ script = "generate_summary"
    /\ row # NotCalled
    /\ cells = NotCalled
    /\ cells' = gs_render(row)
    /\ UNCHANGED <<script, xml_path, parsed, cov_entry, row>>
    /\ UNCHANGED <<vars, loop_vars, batch_vars>>

CoverageNext ==
    \/ ParseCoverageXml
    \/ BuildRow
    \/ RenderRow
    \/ GsBuildRow
    \/ GsRenderRow

all_vars == <<vars, coverage_vars, loop_vars, batch_vars>>

SpecCoverage == CoverageInit /\ [][CoverageNext]_all_vars

\* ------------------------------------------------------- what reports say
\* The percentage a rate field states, read off its decimal notation.
RatePercent(val) ==
    CASE val = <<"0">> -> FromInt(0)
      [] val = <<"0", ".", "2", "5">> -> FromInt(25)
      [] val = <<"1", ".", "5">> -> FromInt(150)

NumericRates == {<<"0">>, <<"0", ".", "2", "5">>, <<"1", ".", "5">>}
NotPositiveCounts == {<<"0">>, <<"-", "4">>}

HasNumeric(report, name) ==
    name \in DOMAIN report.attrib /\ report.attrib[name] \in NumericRates

\* The rate field is absent or no number, the valid count absent or not > 0.
NoSource(report, rate, valid) ==
    /\ ~HasNumeric(report, rate)
    /\ valid \in DOMAIN report.attrib => report.attrib[valid] \in NotPositiveCounts

IsXml(path) == path.kind = "file" /\ path.content = "xml"

\* C11: when the report's root carries a numeric line-rate (branch-rate), every
\* call of parse_coverage_xml returns that rate times 100 as the line (branch)
\* percentage whatever lines-valid/lines-covered (branches-valid/
\* branches-covered) say, and two calls on one report return the same pair.
C11_RateFieldWins ==
    /\ \A k \in DOMAIN parsed :
        /\ (IsXml(xml_path) /\ HasNumeric(xml_path, "line-rate")) =>
             /\ parsed[k].kind = "return"
             /\ parsed[k].line_pct = RatePercent(xml_path.attrib["line-rate"])
        /\ (IsXml(xml_path) /\ HasNumeric(xml_path, "branch-rate")) =>
             /\ parsed[k].kind = "return"
             /\ parsed[k].branch_pct = RatePercent(xml_path.attrib["branch-rate"])
    /\ \A j, k \in DOMAIN parsed : parsed[j] = parsed[k]

\* A report whose line-rate says 25% while its counts say 100%, parsed twice.
C11_Witness ==
    /\ Len(parsed) = 2
    /\ IsXml(xml_path)
    /\ {"line-rate", "lines-valid", "lines-covered"} \subseteq DOMAIN xml_path.attrib
    /\ xml_path.attrib["line-rate"] = <<"0", ".", "2", "5">>
    /\ xml_path.attrib["lines-valid"] = <<"8">>
    /\ xml_path.attrib["lines-covered"] = <<"8">>
    /\ parsed[2].line_pct = FromInt(25)

\* C12: parse_coverage_xml returns (None, None) for an absent or zero-byte
\* report; and for a report with a root, a percentage whose rate field is
\* absent or not numeric and whose valid count is absent or not positive is
\* returned as None, not as 0.
C12_UndefinedNotZero ==
    \A k \in DOMAIN parsed :
        /\ (~exists(xml_path) \/ xml_path.content = "empty") =>
             parsed[k] = Return(None, None)
        /\ (IsXml(xml_path) /\ NoSource(xml_path, "line-rate", "lines-valid")) =>
             parsed[k].kind = "return" /\ parsed[k].line_pct = None
        /\ (IsXml(xml_path) /\ NoSource(xml_path, "branch-rate", "branches-valid")) =>
             parsed[k].kind = "return" /\ parsed[k].branch_pct = None

\* A report with a line-rate that is no number and lines-valid="0", while the
\* branch percentage is defined.
C12_Witness ==
    /\ Len(parsed) >= 1
    /\ IsXml(xml_path)
    /\ {"line-rate", "lines-valid", "lines-covered"} \subseteq DOMAIN xml_path.attrib
    /\ xml_path.attrib["line-rate"] = <<"a", "b", "c">>
    /\ xml_path.attrib["lines-valid"] = <<"0">>
    /\ xml_path.attrib["lines-covered"] = <<"4">>
    /\ parsed[1].line_pct = None
    /\ parsed[1].branch_pct # None

\* The statement count the summary extraction reads from an entry.
Statements(entry) ==
    IF entry.kind = "empty" THEN 0 ELSE summary_get(entry.summary, "num_statements")

\* C13 as claimed: for an entry with num_statements = 0, or no entry, the row
\* of humaneval_coverage_summary carries an undefined line percentage, not the
\* number 0, and its Line% cell is not "0%".
C13_ZeroStatementsUndefined ==
    (script = "humaneval_coverage_summary" /\ row # NotCalled
     /\ Statements(cov_entry) = 0) =>
        /\ row.cover_pct = None
        /\ row.cover_pct # FromInt(0)
        /\ cells # NotCalled => cells.line_pct_str # <<"0", "%">>

InRange(x) == IsFloat(x) => (LessEq(FromInt(0), x) /\ LessEq(x, FromInt(100)))

\* C14 as claimed: every defined percentage that parse_coverage_xml returns,
\* and every percentage of a row built from summarize_pytest_cov_style (both
\* scripts), lies in [0, 100].
C14_PercentagesInRange ==
    /\ \A k \in DOMAIN parsed :
        parsed[k].kind = "return" =>
            InRange(parsed[k].line_pct) /\ InRange(parsed[k].branch_pct)
    /\ row # NotCalled => InRange(row.cover_pct) /\ InRange(row.branch_pct)

\* --------------------------------------------- reading a Missing cell back
\* The pieces of a cell between the separators ", ".
RECURSIVE SplitCell(_, _)
SplitCell(cs, piece) ==
    IF cs = <<>> THEN <<piece>>
    ELSE IF Len(cs) >= 2 /\ cs[1] = "," /\ cs[2] = " "
    THEN <<piece>> \o SplitCell(SubSeq(cs, 3, Len(cs)), <<>>)
    ELSE SplitCell(Tail(cs), Append(piece, cs[1]))

Pieces(cs) == IF cs = <<>> THEN <<>> ELSE SplitCell(cs, <<>>)

IsNumber(cs) == cs # <<>> /\ AllDigits(cs)

\* A piece is "a" or "a-b" with a < b.
Dashes(piece) == {k \in DOMAIN piece : piece[k] = "-"}
Before(piece) == SubSeq(piece, 1, Min(Dashes(piece)) - 1)
After(piece) == SubSeq(piece, Min(Dashes(piece)) + 1, Len(piece))

WellFormedPiece(piece) ==
    IF Dashes(piece) = {} THEN IsNumber(piece)
    ELSE /\ IsNumber(Before(piece)) /\ IsNumber(After(piece))
         /\ DigitsVal(Before(piece)) < DigitsVal(After(piece))

First(piece) ==
    IF Dashes(piece) = {} THEN DigitsVal(piece) ELSE DigitsVal(Before(piece))
Last(piece) ==
    IF Dashes(piece) = {} THEN DigitsVal(piece) ELSE DigitsVal(After(piece))

\* The line numbers a cell stands for, in the order it lists them.
RECURSIVE Expand(_)
Expand(pieces) ==
    IF pieces = <<>> THEN <<>>
    ELSE [k \in 1..(Last(pieces[1]) - First(pieces[1]) + 1) |-> First(pieces[1]) + k - 1]
         \o Expand(Tail(pieces))

StrictlyIncreasing(xs) == \A j, k \in DOMAIN xs : j < k => xs[j] < xs[k]

Cell_2_4_7_8_10 == <<"2", "-", "4", ",", " ", "7", "-", "8", ",", " ", "1", "0">>

\* C15: for a strictly increasing missing-lines list, the Missing text of the
\* row (either script) is made of well-formed pieces "a" or "a-b" (a < b)
\* separated by ", ", in ascending order, no piece continuing the one before
\* it (the runs are maximal), and expanding the pieces gives the list back;
\* [2,3,4,7,8,10] gives "2-4, 7-8, 10", [] gives "", [5] gives "5"; and the
\* copy of the other script returns the same text.
C15_MaximalRunsRoundTrip ==
    (row # NotCalled /\ cov_entry.kind = "entry"
     /\ StrictlyIncreasing(cov_entry.missing_lines)) =>
        LET lines == cov_entry.missing_lines
            ps == Pieces(row.missing)
        IN /\ \A k \in DOMAIN ps : WellFormedPiece(ps[k])
           /\ \A k \in DOMAIN ps : k > 1 => First(ps[k]) > Last(ps[k - 1]) + 1
           /\ Expand(ps) = lines
           /\ lines = <<2, 3, 4, 7, 8, 10>> => row.missing = Cell_2_4_7_8_10
           /\ lines = <<>> => row.missing = <<>>
           /\ lines = <<5>> => row.missing = <<"5">>
           /\ row.missing = compress_line_ranges(lines)
           /\ row.missing = gs_compress_line_ranges(lines)

\* generate_summary has built the row of an entry missing lines 2-4, 7-8, 10.
C15_Witness ==
    /\ script = "generate_summary"
    /\ row # NotCalled
    /\ cov_entry.kind = "entry"
    /\ cov_entry.missing_lines = <<2, 3, 4, 7, 8, 10>>
    /\ row.missing = Cell_2_4_7_8_10

\* ===================================================== the feedback loop
\* convergence.py: main and the functions it calls.

\* ------------------------------------------------- constants of the script
PROBLEM_ID == 106
ITERATIONS == 3
PRIOR_TESTS_CHAR_BUDGET == 6000

\* ----------------------------------------------------------------- bounds
\* Runs of main on the problem.
MaxRuns == 2
\* Sleeps of wait_for_file before its timeout (time.sleep(0.1) up to 3.0 s).
MaxPolls == 1
\* Characters of the preamble build_test_preamble returns, right-stripped (it
\* holds the path of the solution file).
PreambleLen == 350
\* Lines of a coverage text report that name the solution file.
MaxMatching == 11

Rounds == 1..ITERATIONS

\* f"{n:02d}"
format_02d(n) == IF n < 10 THEN <<"0">> \o str(n) ELSE str(n)

\* f"test_humaneval_{PROBLEM_ID}_llm_iter_{iter_idx:02d}.py"
test_file_name(n) ==
    <<"t", "e", "s", "t", "_", "h", "u", "m", "a", "n", "e", "v", "a", "l", "_">> \o str(PROBLEM_ID)
    \o <<"_", "l", "l", "m", "_", "i", "t", "e", "r", "_">> \o format_02d(n) \o <<".", "p", "y">>

\* name.endswith(suffix)
endswith(name, suffix) ==
    /\ Len(suffix) <= Len(name)
    /\ SubSeq(name, Len(name) - Len(suffix) + 1, Len(name)) = suffix

\* A test file and the number of characters of its text.
TestFile(len) == [kind |-> "file", len |-> len]

\* write_test_file: preamble.rstrip() + "\n\n" + llm_tests.strip() + "\n",
\* llm_tests being the stripped completion of len characters.
write_test_file(llm) == TestFile(PreambleLen + 2 + llm.len + 1)

\* sorted(TESTS_DIR.glob("test_humaneval_<ID>_llm_iter_*.py")): the rounds
\* whose file exists, in name order (the names differ in the two digits).
glob_sorted(dir) ==
    Ascending({j \in DOMAIN dir : exists(dir[j])})

\* len(f"# {f.name}\n" + f.read_text())
text_len(dir, j) == 2 + Len(test_file_name(j)) + 1 + dir[j].len

\* A text appended to texts: the first chars characters of the header and
\* text of round j's file, then the truncation marker or nothing.
Piece(j, chars, marker) == [file |-> j, chars |-> chars, marker |-> marker]

\* The loop over files that takes a cut piece whatever room is left.
RECURSIVE prior_loop_always_cut(_, _, _, _, _)
prior_loop_always_cut(dir, current_iter_idx, files, texts, total) ==
    IF files = <<>> THEN texts
    ELSE LET f == Head(files) IN
         IF endswith(test_file_name(f), format_02d(current_iter_idx) \o <<".", "p", "y">>)
         THEN prior_loop_always_cut(dir, current_iter_idx, Tail(files), texts, total)
         ELSE IF total + text_len(dir, f) > PRIOR_TESTS_CHAR_BUDGET
         THEN Append(texts, Piece(f, PRIOR_TESTS_CHAR_BUDGET - total, TRUE))
         ELSE prior_loop_always_cut(dir, current_iter_idx, Tail(files),
                                    Append(texts, Piece(f, text_len(dir, f), FALSE)),
                                    total + text_len(dir, f))

\* for f in files: ... of collect_prior_tests_text.
RECURSIVE prior_loop(_, _, _, _, _)
prior_loop(dir, current_iter_idx, files, texts, total) ==
    IF files = <<>> THEN texts
    ELSE LET f == Head(files) IN
         IF endswith(test_file_name(f), format_02d(current_iter_idx) \o <<".", "p", "y">>)
         THEN prior_loop(dir, current_iter_idx, Tail(files), texts, total)
         ELSE IF total + text_len(dir, f) > PRIOR_TESTS_CHAR_BUDGET
         THEN LET remaining == PRIOR_TESTS_CHAR_BUDGET - total
              IN IF remaining > 200
                 THEN Append(texts, Piece(f, remaining, TRUE))
                 ELSE texts
         ELSE prior_loop(dir, current_iter_idx, Tail(files),
                         Append(texts, Piece(f, text_len(dir, f), FALSE)),
                         total + text_len(dir, f))

\* The str collect_prior_tests_text returns: "None", or the texts joined.
NoneStr == [text |-> "None", texts |-> <<>>]
Joined(texts) == [text |-> "joined", texts |-> texts]

collect_prior_tests_text(dir, current_iter_idx) ==
    LET texts == prior_loop(dir, current_iter_idx, glob_sorted(dir), <<>>, 0)
    IN IF texts = <<>> THEN NoneStr ELSE Joined(texts)

\* The test without the size: a zero-byte file passes.
file_ready_any_size(path) == exists(path)

\* wait_for_file's test: path.exists() and path.stat().st_size > 0
file_ready(path) == exists(path) /\ st_size(path) > 0

\* f"{x:.2f}" of a float or of float('nan').
format_2f(x) ==
    IF x = None THEN <<"n", "a", "n">>
    ELSE LET a == Abs(x.n) * 100
             q == a \div x.d
             r == a % x.d
             t == IF 2 * r > x.d \/ (2 * r = x.d /\ q % 2 = 1) THEN q + 1 ELSE q
         IN (IF x.n < 0 THEN <<"-">> ELSE <<>>)
            \o str(t \div 100) \o <<".">> \o str((t \div 10) % 10) \o str(t % 10)

ParseFailedNote == <<" ", "(", "p", "a", "r", "s", "e", " ", "f", "a", "i", "l", "e", "d", ")">>

\* The line append_results_line writes:
\* f"iter={iter_idx:02d}\tline%={lp:.2f}\tbranch%={bp:.2f}\t{note}\n"
results_line(n, line_pct, branch_pct, note) ==
    [iter |-> format_02d(n), line |-> format_2f(line_pct),
     branch |-> format_2f(branch_pct), note |-> note]

\* A line of the output of "coverage report -m": its place in the output,
\* whether SOL_PATH.name is in it, whether the word Missing is in it.
Line(no, sol, missing) == [no |-> no, sol |-> sol, missing |-> missing]

\* An output, as rep.splitlines() gives it: a first line that holds the word
\* Missing (the table's header) or not (a message), then `matching` times a
\* line of another file followed by a line naming the solution file.
Rep(matching, has_missing) ==
    [k \in 1..(2 * matching + 1) |->
        IF k = 1 THEN Line(1, FALSE, has_missing) ELSE Line(k, k % 2 = 1, FALSE)]

\* prior_hint = "None"
NoneHint == [text |-> "None", lines |-> <<>>]

\* The hint built from every matching line.
hint_of_every_line(output) ==
    LET in_rep == \E k \in DOMAIN output : output[k].missing
        Matches(line) == line.sol /\ in_rep
        missing_lines == SelectSeq(output, Matches)
    IN IF missing_lines # <<>>
       THEN [text |-> "From previous coverage report, Missing lines (subset):",
             lines |-> missing_lines]
       ELSE NoneHint

\* prior_hint after the report `output` (lines 298-305): missing_lines holds the lines
\* with SOL_PATH.name in them if "Missing" is in rep; the hint is the title
\* and missing_lines[:10], or "None".
hint_of(output) ==
    LET in_rep == \E k \in DOMAIN output : output[k].missing
        Matches(line) == line.sol /\ in_rep
        missing_lines == SelectSeq(output, Matches)
    IN IF missing_lines # <<>>
       THEN [text |-> "From previous coverage report, Missing lines (subset):",
             lines |-> SubSeq(missing_lines, 1,
                              IF Len(missing_lines) < 10 THEN Len(missing_lines) ELSE 10)]
       ELSE NoneHint

\* ------------------------------------------------------------------ inputs
\* len("# <name>\n")
HeaderLen == 2 + Len(test_file_name(1)) + 1

\* Lengths of test files: the 1500 characters of a short file, a file that
\* leaves 201 or 200 characters of the budget, a file of the whole budget.
FileLens ==
    {1500, PRIOR_TESTS_CHAR_BUDGET - 201 - HeaderLen,
     PRIOR_TESTS_CHAR_BUDGET - 200 - HeaderLen, PRIOR_TESTS_CHAR_BUDGET}

\* What call_chatgpt returns in the loop: a stripped completion whose test
\* file comes to 1500 characters.
Completion(len) == [len |-> len]
Completions == {Completion(1500 - PreambleLen - 3)}

\* What "coverage xml" writes: a report with both rates, a document whose root
\* has no attribute, bytes that are no XML document, or no byte.
GoodReport ==
    XmlFile([a \in RateNames |->
                IF a = "line-rate" THEN <<"0", ".", "2", "5">> ELSE <<"0">>])
BareReport == XmlFile(<<>>)
FreshReports == {GoodReport, BareReport, MalformedFile, EmptyFile}

\* What "coverage report -m" prints: a message that names no file ("No data
\* to report."), a message followed by a line naming the solution file, and a
\* table with more than ten lines naming it.
Reps == {Rep(0, FALSE), Rep(1, FALSE), Rep(MaxMatching, TRUE)}

NothingPending == [kind |-> "none"]
Pending(n, report, by) == [kind |-> "pending", round |-> n, report |-> report, by |-> by]

\* ------------------------------------------------------ pre-flight checks
ENTRY_POINT == <<"f">>

\* What the checks look at: SOL_PATH.exists(), os.environ, and whether
\* `import coverage` succeeds.
Installation(sol_path, environ, coverage) ==
    [sol_path |-> sol_path, environ |-> environ, coverage |-> coverage]

\* raise SystemExit(msg)
SystemExit(msg) == [kind |-> "raise", type |-> "SystemExit", msg |-> msg]

\* os.getenv(name) is truthy: the variable is set to a string that is not "".
getenv_truthy(environ, name) == name \in DOMAIN environ /\ environ[name] # <<>>

\* The checks without the one of the credential.
preflight_no_key_check(inst) ==
    IF ~inst.sol_path THEN SystemExit("Solution not found")
    ELSE IF ENTRY_POINT = <<>> THEN SystemExit("Please set ENTRY_POINT")
    ELSE IF ~inst.coverage THEN SystemExit("Please pip install coverage pytest")
    ELSE None

\* main, lines 227-237: the SystemExit of the first check that fails, or None.
preflight(inst) ==
    IF ~inst.sol_path THEN SystemExit("Solution not found")
    ELSE IF ENTRY_POINT = <<>> THEN SystemExit("Please set ENTRY_POINT")
    ELSE IF ~getenv_truthy(inst.environ, "OPENAI_API_KEY")
    THEN SystemExit("OPENAI_API_KEY not set in environment.")
    ELSE IF ~inst.coverage THEN SystemExit("Please pip install coverage pytest")
    ELSE None

\* os.environ: the credential unset, set to "", set to a key.
Environs ==
    {<<>>, [n \in {"OPENAI_API_KEY"} |-> <<>>], [n \in {"OPENAI_API_KEY"} |-> <<"s", "k">>]}

\* Everything in place, or one thing not; and nothing in place.
Installations ==
    {Installation(TRUE, e, TRUE) : e \in Environs}
    \cup {Installation(FALSE, [n \in {"OPENAI_API_KEY"} |-> <<"s", "k">>], TRUE),
          Installation(TRUE, [n \in {"OPENAI_API_KEY"} |-> <<"s", "k">>], FALSE),
          Installation(FALSE, <<>>, FALSE)}

\* ----------------------------------------------------------- state machine
\* The problem's directory and results file do not exist yet.
LoopInit ==
    /\ tests_dir = [j \in Rounds |-> NoFile]
    /\ xml_files = [j \in Rounds |-> NoFile]
    /\ log_files = [j \in Rounds |-> 0]
    /\ error_files = {}
    /\ results_file = <<>>
    /\ pending = NothingPending
    /\ run = 0
    /\ loop_pc = "not run"
    /\ iter_idx = 0
    /\ prior_hint = NotCalled
    /\ prior_tests = NotCalled
    /\ llm_tests = NotCalled
    /\ polls = 0
    /\ error = NotCalled
    /\ requests = <<>>
    /\ rep = NotCalled
    /\ installation = NotCalled
    /\ xml_written = [j \in Rounds |-> 0]
    /\ RunnerIdle
    /\ CoverageIdle
    /\ BatchIdle

NotRunning == loop_pc \in {"not run", "done", "aborted"}

\* main up to the first round: a pre-flight check raises SystemExit, or they
\* all pass and prior_hint = "None".
StartRun ==
    /\ NotRunning
    /\ run < MaxRuns
    /\ run' = run + 1
    /\ \E inst \in Installations :
          /\ installation' = inst
          /\ IF preflight(inst) = None
             THEN /\ prior_hint' = NoneHint
                  /\ iter_idx' = 1
                  /\ loop_pc' = "prepare"
                  /\ error' = NotCalled
             ELSE /\ prior_hint' = NotCalled
                  /\ iter_idx' = 0
                  /\ loop_pc' = "aborted"
                  /\ error' = preflight(inst)
    /\ prior_tests' = NotCalled
    /\ llm_tests' = NotCalled
    /\ polls' = 0
    /\ requests' = <<>>
    /\ rep' = NotCalled
    /\ UNCHANGED <<tests_dir, xml_files, log_files, error_files, results_file, pending,
                   xml_written>>
    /\ UNCHANGED <<vars, coverage_vars, batch_vars>>

\* prior_tests = collect_prior_tests_text(i)
Prepare ==
    /\ loop_pc = "prepare"
    /\ prior_tests' = collect_prior_tests_text(tests_dir, iter_idx)
    /\ loop_pc' = "request"
    /\ UNCHANGED <<tests_dir, xml_files, log_files, error_files, results_file, pending,
                   run, iter_idx, prior_hint, llm_tests, polls, error, requests,
                   rep, installation, xml_written>>
    /\ UNCHANGED <<vars, coverage_vars, batch_vars>>

\* user_msg = PROMPT_TEMPLATE.format(...); llm_tests = call_chatgpt(...): the
\* completion, or the exception of the client, which main does not catch.
Request ==
    /\ loop_pc = "request"
    /\ requests' = Append(requests, [round |-> iter_idx, coverage_hint |-> prior_hint,
                                     prior_tests |-> prior_tests])
    /\ \/ \E c \in Completions :
            /\ llm_tests' = c
            /\ loop_pc' = "persist"
            /\ error' = error
       \/ /\ llm_tests' = llm_tests
          /\ loop_pc' = "aborted"
          /\ error' = Raised("OpenAIError")
    /\ UNCHANGED <<tests_dir, xml_files, log_files, error_files, results_file, pending,
                   run, iter_idx, prior_hint, prior_tests, polls, rep, installation,
                   xml_written>>
    /\ UNCHANGED <<vars, coverage_vars, batch_vars>>

\* test_path = write_test_file(i, preamble, llm_tests)
Persist ==
    /\ loop_pc = "persist"
    /\ tests_dir' = [tests_dir EXCEPT ![iter_idx] = write_test_file(llm_tests)]
    /\ loop_pc' = "measure"
    /\ UNCHANGED <<xml_files, log_files, error_files, results_file, pending, run,
                   iter_idx, prior_hint, prior_tests, llm_tests, polls, error, requests,
                   rep, installation, xml_written>>
    /\ UNCHANGED <<vars, coverage_vars, batch_vars>>

\* stdout, rc = run_pytest_with_coverage(xml_out, cov_data) and the write of
\* the round's log. "coverage xml" writes a report at xml_out, or one that
\* shows at the path only later, or fails and leaves the path as it was.
Measure ==
    /\ loop_pc = "measure"
    /\ \/ \E r \in FreshReports :
            /\ xml_files' = [xml_files EXCEPT ![iter_idx] = r]
            /\ xml_written' = [xml_written EXCEPT ![iter_idx] = run]
            /\ pending' = NothingPending
       \/ /\ UNCHANGED <<xml_files, xml_written>>
          /\ pending' = Pending(iter_idx, GoodReport, run)
       \/ /\ UNCHANGED <<xml_files, xml_written>>
          /\ pending' = NothingPending
    /\ log_files' = [log_files EXCEPT ![iter_idx] = run]
    /\ polls' = 0
    /\ loop_pc' = "wait"
    /\ UNCHANGED <<tests_dir, error_files, results_file, run, iter_idx, prior_hint,
                   prior_tests, llm_tests, error, requests, rep, installation>>
    /\ UNCHANGED <<vars, coverage_vars, batch_vars>>

\* The file system shows the report written earlier.
Land ==
    /\ pending # NothingPending
    /\ xml_files' = [xml_files EXCEPT ![pending.round] = pending.report]
    /\ xml_written' = [xml_written EXCEPT ![pending.round] = pending.by]
    /\ pending' = NothingPending
    /\ UNCHANGED <<tests_dir, log_files, error_files, results_file, run, loop_pc,
                   iter_idx, prior_hint, prior_tests, llm_tests, polls, error, requests,
                   rep, installation>>
    /\ UNCHANGED <<vars, coverage_vars, batch_vars>>

CoverageXmlNotWritten(n) ==
    [kind |-> "raise", type |-> "RuntimeError", names_xml |-> n, names_log |-> n]

\* if not wait_for_file(xml_out, timeout_s=3.0): raise RuntimeError(...)
\* One test of the path: wait_for_file returns True, sleeps, or, the time
\* being up, returns False after its last test.
Poll ==
    /\ loop_pc = "wait"
    /\ IF file_ready(xml_files[iter_idx])
       THEN loop_pc' = "parse" /\ polls' = polls /\ error' = error
       ELSE IF polls < MaxPolls
       THEN loop_pc' = loop_pc /\ polls' = polls + 1 /\ error' = error
       ELSE /\ loop_pc' = "aborted"
            /\ polls' = polls
            /\ error' = CoverageXmlNotWritten(iter_idx)
    /\ UNCHANGED <<tests_dir, xml_files, log_files, error_files, results_file, pending,
                   run, iter_idx, prior_hint, prior_tests, llm_tests, requests,
                   rep, installation, xml_written>>
    /\ UNCHANGED <<vars, coverage_vars, batch_vars>>

\* line_pct, branch_pct = parse_coverage_xml(xml_out) and the results line.
Parse ==
    /\ loop_pc = "parse"
    /\ LET r == parse_coverage_xml(xml_files[iter_idx])
           name == test_file_name(iter_idx)
       IN IF r.kind = "raise"
          THEN /\ error' = r
               /\ loop_pc' = "aborted"
               /\ UNCHANGED <<error_files, results_file>>
          ELSE IF r.line_pct = None /\ r.branch_pct = None
          THEN /\ error_files' = error_files \cup {iter_idx}
               /\ results_file' = Append(results_file,
                      results_line(iter_idx, None, None, name \o ParseFailedNote))
               /\ loop_pc' = "hint"
               /\ error' = error
          ELSE /\ results_file' = Append(results_file,
                      results_line(iter_idx, r.line_pct, r.branch_pct, name))
               /\ loop_pc' = "hint"
               /\ UNCHANGED <<error_files, error>>
    /\ UNCHANGED <<tests_dir, xml_files, log_files, pending, run, iter_idx,
                   prior_hint, prior_tests, llm_tests, polls, requests, rep, installation,
                   xml_written>>
    /\ UNCHANGED <<vars, coverage_vars, batch_vars>>

\* rep = "coverage report -m"; prior_hint for the next round; the next i.
Hint ==
    /\ loop_pc = "hint"
    /\ rep' \in Reps
    /\ prior_hint' = hint_of(rep')
    /\ IF iter_idx < ITERATIONS
       THEN iter_idx' = iter_idx + 1 /\ loop_pc' = "prepare"
       ELSE iter_idx' = iter_idx /\ loop_pc' = "done"
    /\ UNCHANGED <<tests_dir, xml_files, log_files, error_files, results_file, pending,
                   run, prior_tests, llm_tests, polls, error, requests, installation,
                   xml_written>>
    /\ UNCHANGED <<vars, coverage_vars, batch_vars>>

\* clear106.py: removes tests/problem_106 and the results file.
Clear106 ==
    /\ NotRunning
    /\ results_file # <<>> \/ \E j \in Rounds : exists(tests_dir[j]) \/ log_files[j] # 0
    /\ tests_dir' = [j \in Rounds |-> NoFile]
    /\ xml_files' = [j \in Rounds |-> NoFile]
    /\ log_files' = [j \in Rounds |-> 0]
    /\ error_files' = {}
    /\ results_file' = <<>>
    /\ xml_written' = [j \in Rounds |-> 0]
    /\ UNCHANGED <<pending, run, loop_pc, iter_idx, prior_hint, prior_tests, llm_tests,
                   polls, error, requests, rep, installation>>
    /\ UNCHANGED <<vars, coverage_vars, batch_vars>>

LoopNext ==
    \/ StartRun
    \/ Prepare
    \/ Request
    \/ Persist
    \/ Measure
    \/ Land
    \/ Poll
    \/ Parse
    \/ Hint
    \/ Clear106

SpecLoop == LoopInit /\ [][LoopNext]_all_vars

\* ------------------------------------- collect_prior_tests_text on its own
\* A round of a run begins in a directory that earlier runs have left with
\* any of the test files, of any of the lengths.
Dirs == [Rounds -> {NoFile} \cup {TestFile(n) : n \in FileLens}]

PriorInit ==
    /\ tests_dir \in Dirs
    /\ iter_idx \in Rounds
    /\ loop_pc = "prepare"
    /\ run = 1
    /\ prior_hint = NoneHint
    /\ xml_files = [j \in Rounds |-> NoFile]
    /\ log_files = [j \in Rounds |-> 0]
    /\ error_files = {}
    /\ results_file = <<>>
    /\ pending = NothingPending
    /\ prior_tests = NotCalled
    /\ llm_tests = NotCalled
    /\ polls = 0
    /\ error = NotCalled
    /\ requests = <<>>
    /\ rep = NotCalled
    /\ installation \in {inst \in Installations : preflight(inst) = None}
    /\ xml_written = [j \in Rounds |-> 0]
    /\ RunnerIdle
    /\ CoverageIdle
    /\ BatchIdle

PriorNext == Prepare

SpecPrior == PriorInit /\ [][PriorNext]_all_vars

\* ------------------------------------------- what the prior-tests text holds
\* The files the loop of collect_prior_tests_text gets to budget: those of the
\* directory but the current round's, in name order.
Considered(dir, n) == Ascending({j \in Rounds : exists(dir[j]) /\ j # n})

\* The length of the first k of them, header comments included.
RECURSIVE Cumulative(_, _, _)
Cumulative(dir, files, k) ==
    IF k = 0 THEN 0 ELSE Cumulative(dir, files, k - 1) + text_len(dir, files[k])

\* How many of them fit the budget whole.
Whole(dir, files) ==
    CHOOSE k \in 0..Len(files) :
        /\ Cumulative(dir, files, k) <= PRIOR_TESTS_CHAR_BUDGET
        /\ k < Len(files) => Cumulative(dir, files, k + 1) > PRIOR_TESTS_CHAR_BUDGET

\* C18: the text collect_prior_tests_text returns holds, in name order, every
\* file whole with its header while the cumulative length stays within
\* PRIOR_TESTS_CHAR_BUDGET; of the first file that would exceed it, the first
\* `remaining` characters and one truncation marker if more than 200
\* characters remain, and nothing otherwise; and no file after that one. A
\* single prior file of 1500 characters is included whole, without marker.
C18_WholeFilesThenOneCut ==
    loop_pc = "request" =>
        LET files == Considered(tests_dir, iter_idx)
            n == Whole(tests_dir, files)
            remaining == PRIOR_TESTS_CHAR_BUDGET - Cumulative(tests_dir, files, n)
            whole == [k \in 1..n |-> Piece(files[k], text_len(tests_dir, files[k]), FALSE)]
            cut == IF n < Len(files) /\ remaining > 200
                   THEN <<Piece(files[n + 1], remaining, TRUE)>> ELSE <<>>
        IN /\ prior_tests.texts = whole \o cut
           /\ prior_tests.text = "None" <=> whole \o cut = <<>>
           /\ (Len(files) = 1 /\ tests_dir[files[1]].len = 1500) =>
                 prior_tests = Joined(<<Piece(files[1], HeaderLen + 1500, FALSE)>>)

\* Round 3 with a first file that leaves exactly 200 characters of the budget
\* and a second file: the first is included whole, the second not at all.
C18_Witness ==
    /\ loop_pc = "request"
    /\ iter_idx = 3
    /\ tests_dir[1] = TestFile(PRIOR_TESTS_CHAR_BUDGET - 200 - HeaderLen)
    /\ tests_dir[2] = TestFile(1500)
    /\ prior_tests = Joined(<<Piece(1, PRIOR_TESTS_CHAR_BUDGET - 200, FALSE)>>)

\* ------------------------------------------------ what the loop leaves behind
\* The round index a results line states.
RoundOf(line) == DigitsVal(line.iter)

IsParseFailedLine(line) ==
    /\ line.line = <<"n", "a", "n">>
    /\ line.branch = <<"n", "a", "n">>
    /\ endswith(line.note, ParseFailedNote)

\* The report is there with bytes in it.
NonEmptyReport(path) == path.kind = "file" /\ path.content # "empty"

\* The report is there with bytes in it and gives neither percentage.
Unparsable(path) ==
    NonEmptyReport(path)
    /\ (path.content = "malformed" \/ DOMAIN path.attrib = {})

\* C16 as claimed: the lines of the results file, in file order, carry the
\* round indexes 1, 2, 3, ...: the k-th line is that of round k, whatever runs
\* of the loop, complete or aborted, have appended them.
C16_RoundIndexesGapless ==
    \A k \in DOMAIN results_file : RoundOf(results_file[k]) = k

\* C17 as claimed: the prior-tests text of round i holds only files of rounds
\* j < i, whatever files the directory holds, and in round 1 it is "None".
C17_OnlyEarlierRounds ==
    loop_pc = "request" =>
        /\ \A k \in DOMAIN prior_tests.texts : prior_tests.texts[k].file < iter_idx
        /\ iter_idx = 1 => prior_tests = NoneStr

\* C19 as claimed: a round whose report cannot be parsed never ends the run;
\* its results line carries nan, nan and the parse-failed note; and the round
\* after it is given the hint "None".
C19_ParseFailureContinues ==
    /\ ~(loop_pc = "aborted" /\ error = Raised("ParseError"))
    /\ (loop_pc = "hint" /\ Unparsable(xml_files[iter_idx])) =>
          /\ results_file # <<>>
          /\ IsParseFailedLine(results_file[Len(results_file)])
          /\ RoundOf(results_file[Len(results_file)]) = iter_idx
    /\ (loop_pc \in {"prepare", "request"} /\ iter_idx > 1
        /\ IsParseFailedLine(results_file[Len(results_file)])) =>
          prior_hint.text = "None"

\* C20: the wait for the report of round i ends on an absent or zero-byte
\* report only when its time is up, and the run ends there with the
\* RuntimeError naming the report and the log of round i; the log of round i
\* was written by this run before, the step appends no results line, and
\* while this run is the last one started no completion is requested, no test
\* file written and no results line appended after it (clear106.py may remove
\* the files).
C20_MissingReportAborts ==
    [][/\ (loop_pc = "wait" /\ loop_pc' # "wait"
           /\ ~NonEmptyReport(xml_files[iter_idx])) =>
             /\ polls = MaxPolls
             /\ loop_pc' = "aborted"
             /\ error' = CoverageXmlNotWritten(iter_idx)
             /\ log_files[iter_idx] = run
             /\ results_file' = results_file
       /\ (loop_pc = "aborted" /\ error = CoverageXmlNotWritten(iter_idx)
           /\ run' = run) =>
             /\ loop_pc' = "aborted"
             /\ requests' = requests
             /\ \A j \in Rounds : exists(tests_dir'[j]) => tests_dir'[j] = tests_dir[j]
             /\ results_file' = results_file \/ results_file' = <<>>
      ]_all_vars

\* Round 2 of the first run ended on a zero-byte report: one results line,
\* two completions requested, the third test file never written.
C20_Witness ==
    /\ loop_pc = "aborted"
    /\ error = CoverageXmlNotWritten(2)
    /\ run = 1
    /\ xml_files[2] = EmptyFile
    /\ log_files[2] = 1
    /\ Len(results_file) = 1
    /\ Len(requests) = 2
    /\ ~exists(tests_dir[3])

\* ------------------------------------------------------ pre-flight failures
\* The run ended in one of main's SystemExit.
PreflightAborted == loop_pc = "aborted" /\ error.kind = "raise" /\ error.type = "SystemExit"

\* C21: a run started with the solution file missing, OPENAI_API_KEY unset or
\* the coverage package missing ends in SystemExit before round 1: the step
\* requests no completion and leaves every test file, log, report, parse-error
\* file and the results file as they were; and while this run is the last one
\* started it stays ended, requests nothing, and writes no test file, log,
\* report or results line (clear106.py may remove files).
C21_PreflightAborts ==
    [][/\ (run' = run + 1
           /\ \/ ~installation'.sol_path
              \/ "OPENAI_API_KEY" \notin DOMAIN installation'.environ
              \/ ~installation'.coverage) =>
             /\ loop_pc' = "aborted"
             /\ error' \in {SystemExit("Solution not found"),
                            SystemExit("OPENAI_API_KEY not set in environment."),
                            SystemExit("Please pip install coverage pytest")}
             /\ iter_idx' = 0
             /\ requests' = <<>>
             /\ UNCHANGED <<tests_dir, xml_files, xml_written, log_files, error_files,
                            results_file>>
       /\ (PreflightAborted /\ run' = run) =>
             /\ loop_pc' = "aborted"
             /\ iter_idx' = 0
             /\ requests' = <<>>
             /\ \A j \in Rounds :
                   /\ exists(tests_dir'[j]) => tests_dir'[j] = tests_dir[j]
                   /\ log_files'[j] \in {log_files[j], 0}
                   /\ xml_written'[j] # xml_written[j] => xml_written'[j] # run
             /\ error_files' \subseteq error_files
             /\ results_file' = results_file \/ results_file' = <<>>
      ]_all_vars

\* The second run, after a run of three rounds, finds the credential unset:
\* it ends in SystemExit with nothing requested and the three results lines of
\* the first run as they were.
C21_Witness ==
    /\ PreflightAborted
    /\ run = 2
    /\ installation.sol_path /\ installation.coverage
    /\ installation.environ = <<>>
    /\ error = SystemExit("OPENAI_API_KEY not set in environment.")
    /\ requests = <<>>
    /\ Len(results_file) = ITERATIONS
    /\ \A j \in Rounds : log_files[j] = 1

\* ------------------------------------------------- the hint a round is given
\* The places of the lines of a report that name the solution file.
Referencing(output) == {k \in DOMAIN output : output[k].sol}

\* The word Missing stands somewhere in the report.
HoldsMissing(output) == \E k \in DOMAIN output : output[k].missing

\* The j-th smallest place of S.
Nth(S, j) == CHOOSE k \in S : Cardinality({m \in S : m < k}) = j - 1

\* The hint made of the lines at the places S of a report: "None" if there
\* are none, else the explanatory sentence and the first ten in report order.
HintFrom(output, S) ==
    IF S = {} THEN NoneHint
    ELSE [text |-> "From previous coverage report, Missing lines (subset):",
          lines |-> [j \in 1..(IF Cardinality(S) < 10 THEN Cardinality(S) ELSE 10) |->
                        output[Nth(S, j)]]]

\* A round of the run is or was under way.
InRounds == iter_idx >= 1

\* The request of the current round has been sent and its hint not replaced.
RequestSent ==
    /\ loop_pc \in {"persist", "measure", "wait", "parse", "hint", "aborted"}
    /\ Len(requests) = iter_idx

\* Round 1 is given "None"; a later round i+1, and the end of the run, hold
\* the hint made of the lines Lines(rep) of the report of round i alone; the
\* request of a round carries the hint the round holds.
HintGiven(Lines(_)) ==
    InRounds =>
        /\ IF iter_idx = 1 /\ loop_pc # "done"
           THEN prior_hint = NoneHint
           ELSE prior_hint = HintFrom(rep, Lines(rep))
        /\ \A k \in DOMAIN requests :
              /\ requests[k].round = k
              /\ k = 1 => requests[k].coverage_hint = NoneHint
        /\ RequestSent => requests[iter_idx].coverage_hint = prior_hint

\* C22 as claimed: the hint of round i+1 is made of the lines of round i's
\* report that reference the solution file, whenever there are such lines.
C22_Original == HintGiven(Referencing)

AmendedLines(output) == IF HoldsMissing(output) THEN Referencing(output) ELSE {}

\* C22 as amended: the hint given to round i+1 is derived only from round i's
\* own coverage text report: when that report holds the word Missing and has
\* lines referencing the solution file, the hint is the explanatory prefix
\* followed by the first ten such lines in report order, otherwise it is
\* "None"; round 1 always receives "None" and nothing of an earlier hint
\* survives.
C22_HintFromLastReport == HintGiven(AmendedLines)

\* Round 2 was given ten of the eleven lines of round 1's report; round 2's
\* report names the solution file in a message without the word Missing, and
\* round 3 was given "None".
C22_Witness ==
    /\ Len(requests) = 3
    /\ Len(requests[2].coverage_hint.lines) = 10
    /\ requests[2].coverage_hint.lines[10] = Rep(MaxMatching, TRUE)[21]
    /\ rep = Rep(1, FALSE)
    /\ loop_pc = "persist"
    /\ requests[3].coverage_hint = NoneHint

\* ------------------------------------------------- the report a round parses
\* C29 as claimed: in every round that reaches the parsing step, and when its
\* results line is appended, the report at the round's path was written by
\* the "coverage xml" of this run's same round, never left there by an earlier
\* run (no write of the round being still on its way to the path).
C29_ParsedReportIsOwn ==
    (loop_pc \in {"parse", "hint"} /\ pending = NothingPending)
        => xml_written[iter_idx] = run

\* ========================================================= batch runners
\* main of humaneval_coverage_summary.py and of run_humaneval_openai.py.

\* Solution files in the directory.
MaxFiles == 2

\* The problems of the dataset are HumanEval/0 .. HumanEval/163.
LastProblem == 163

\* The characters of a solution file's name, in code point order.
CodeOrder ==
    <<".", "0", "1", "2", "3", "4", "5", "6", "7", "8", "9", "_",
      "a", "b", "c", "d", "e", "f", "g", "h", "i", "j", "k", "l", "m",
      "n", "o", "p", "q", "r", "s", "t", "u", "v", "w", "x", "y", "z">>

ord(c) == CHOOSE k \in DOMAIN CodeOrder : CodeOrder[k] = c

\* a < b of two strings.
RECURSIVE str_less(_, _)
str_less(a, b) ==
    IF b = <<>> THEN FALSE
    ELSE IF a = <<>> THEN TRUE
    ELSE IF a[1] # b[1] THEN ord(a[1]) < ord(b[1])
    ELSE str_less(Tail(a), Tail(b))

\* The name humaneval_*_openai_attempt_001_base.py, star being what the
\* pattern's * stands for.
sol_name(star) ==
    <<"h", "u", "m", "a", "n", "e", "v", "a", "l", "_">> \o star
    \o <<"_", "o", "p", "e", "n", "a", "i", "_", "a", "t", "t", "e", "m", "p", "t",
         "_", "0", "0", "1", "_", "b", "a", "s", "e", ".", "p", "y">>

\* name.split("_")
RECURSIVE split_(_, _)
split_(name, piece) ==
    IF name = <<>> THEN <<piece>>
    ELSE IF name[1] = "_" THEN <<piece>> \o split_(Tail(name), <<>>)
    ELSE split_(Tail(name), Append(piece, name[1]))

split(name) == split_(name, <<>>)

\* int(s) of a string without sign or blanks.
IntOf(v) == [kind |-> "int", v |-> v]
int(s) == IF s # <<>> /\ AllDigits(s) THEN IntOf(DigitsVal(s)) ELSE ValueError

\* Variant of the dataset lookup: every identifier is a problem.
key_in_problems_any(problem_id) == TRUE

\* f"HumanEval/{problem_id}" in problems
key_in_problems(problem_id) == problem_id \in 0..LastProblem

\* A solution file: its name, how running it ends (its module, an Exception,
\* SystemExit), whether the module has the problem's entry point, the
\* problem's test as it evaluates on that function, and what find_file_entry
\* finds for it in coverage.json.
SolFile(star, load, entry, test, cov) ==
    [name |-> sol_name(star), load |-> load, entry |-> entry, test |-> test,
     cov |-> cov]

\* sorted(p for p in root.glob(...) if p.is_file())
RECURSIVE discover_solution_files(_)
discover_solution_files(root) ==
    IF root = {} THEN <<>>
    ELSE LET first == CHOOSE p \in root :
                          \A q \in root : q = p \/ str_less(p.name, q.name)
         IN <<first>> \o discover_solution_files(root \ {first})

\* What a call returns or lets through.
Returned(r) == [kind |-> "return", total |-> r.total, passed |-> r.passed,
                failed |-> r.failed]
Propagated(e) == [kind |-> "raise", type |-> e.type]

\* run_check_and_count_asserts(candidate, test_code) as one call.
run_check_and_count_asserts(src) ==
    LET st0 == [env |-> NoEnv, records |-> <<>>, exc |-> NoExc, out |-> DevNull,
                err |-> DevNull, emitted |-> {}, calls |-> 0]
        Import(e) == IF except_import(e) THEN Returned(import_error_result(e))
                     ELSE Propagated(e)
    IN IF ~src.ok THEN Import(Exc("SyntaxError", "invalid syntax"))
       ELSE LET t == _instrument_test_code(src)
            IN IF ReturnOutsideFunction(t)
               THEN Import(Exc("SyntaxError", "'return' outside function"))
               ELSE LET m == ExecStmts(t.body, st0, "module")
                    IN IF m.exc # NoExc THEN Import(m.exc)
                       ELSE IF check_missing(m.env) THEN Returned(missing_check_result)
                       ELSE LET c == IF Len(m.env.node.args) # 1
                                     THEN Raise(m, "TypeError",
                                                "missing required positional argument")
                                     ELSE ExecStmts(m.env.node.body, m, "function")
                            IN IF c.exc = NoExc THEN Returned(tally(c.records))
                               ELSE IF except_runtime(c.exc)
                               THEN Returned(tally(Append(c.records,
                                        <<0, FALSE, ErrStr("Runtime error", c.exc)>>)))
                               ELSE Propagated(c.exc)

\* Variant of the status: no failed assertion is enough.
status_of_failed_only(total, failed) == IF failed = 0 THEN "PASS" ELSE "FAIL"

\* "PASS" if failed == 0 and total > 0 else "FAIL"
status_of(total, failed) == IF failed = 0 /\ total > 0 THEN "PASS" ELSE "FAIL"

\* f"{passed}/{total}"
tests_cell(passed, total) == str(passed) \o <<"/">> \o str(total)

\* humaneval_coverage_summary.interpret_result; the dash of the first two notes
\* (U+2013) is written as a hyphen.
interpret_result(tests_passed, tests_total, line_pct, branch_count, brpart) ==
    IF tests_total = 0 THEN "No HumanEval test cases executed."
    ELSE IF tests_passed < tests_total
    THEN IF Less(line_pct, FromInt(50))
         THEN "Many HumanEval cases failing with low line coverage - implementation likely incomplete."
         ELSE "Some HumanEval cases failing despite decent coverage - check edge cases and logic."
    ELSE IF branch_count = 0
    THEN IF LessEq(FromInt(90), line_pct)
         THEN "All HumanEval cases passed with high line coverage (no branch data)."
         ELSE "All HumanEval cases passed but some lines remain untested (no branch data)."
    ELSE IF brpart > 0 /\ LessEq(FromInt(90), line_pct)
    THEN "All HumanEval cases passed with high line coverage, but some branches are only partially tested."
    ELSE IF brpart > 0
    THEN "All HumanEval cases passed; consider more tests to improve branch coverage."
    ELSE "All HumanEval cases passed with strong line and branch coverage."

\* Variant of the second copy: the branch notes chosen by brpart alone.
gs_interpret_result_by_brpart(tests_passed, tests_total, line_pct, branch_count, brpart) ==
    IF tests_total = 0 THEN "No HumanEval test cases executed."
    ELSE IF tests_passed < tests_total
    THEN IF Less(line_pct, FromInt(50))
         THEN "Many HumanEval cases failing with low line coverage - implementation likely incomplete."
         ELSE "Some HumanEval cases failing despite decent coverage - check edge cases and logic."
    ELSE IF branch_count = 0
    THEN IF LessEq(FromInt(90), line_pct)
         THEN "All HumanEval cases passed with high line coverage (no branch data)."
         ELSE "All HumanEval cases passed but some lines remain untested (no branch data)."
    ELSE IF brpart > 0
    THEN "All HumanEval cases passed; consider more tests to improve branch coverage."
    ELSE "All HumanEval cases passed with strong line and branch coverage."

\* generate_summary.interpret_result
gs_interpret_result(tests_passed, tests_total, line_pct, branch_count, brpart) ==
    IF tests_total = 0 THEN "No HumanEval test cases executed."
    ELSE IF tests_passed < tests_total
    THEN IF Less(line_pct, FromInt(50))
         THEN "Many HumanEval cases failing with low line coverage - implementation likely incomplete."
         ELSE "Some HumanEval cases failing despite decent coverage - check edge cases and logic."
    ELSE IF branch_count = 0
    THEN IF LessEq(FromInt(90), line_pct)
         THEN "All HumanEval cases passed with high line coverage (no branch data)."
         ELSE "All HumanEval cases passed but some lines remain untested (no branch data)."
    ELSE IF brpart > 0 /\ LessEq(FromInt(90), line_pct)
    THEN "All HumanEval cases passed with high line coverage, but some branches are only partially tested."
    ELSE IF brpart > 0
    THEN "All HumanEval cases passed; consider more tests to improve branch coverage."
    ELSE "All HumanEval cases passed with strong line and branch coverage."

\* find_file_entry(cov_data, sol): the path and the entry found, "" and {}
\* when coverage.json is missing or names no such file.
Found(entry) == [path |-> "coverage.json", entry |-> entry]
NotFound == [path |-> "", entry |-> EmptyEntry]

\* A row of the combined table: cov_path if cov_path else str(sol), the
\* coverage columns, the tests cell and the note.
TableRow(sol, cov_path, cov, tests, note) ==
    [name |-> [path |-> IF cov_path # "" THEN cov_path ELSE "sol", file |-> sol.name],
     cov |-> cov, tests |-> tests, note |-> note]

\* The row of a file that did not load: zero coverage, tests "0/0".
load_error_row(sol) ==
    TableRow(sol, "", Row(Summary(0, 0, 0, 0, FromInt(0), FromInt(0), <<>>), <<>>),
             <<"0", "/", "0">>, "Module import error: ValueError")

\* The coverage columns of a file that loaded.
cov_columns(sol) ==
    LET s == summarize_pytest_cov_style(sol.cov.entry)
    IN Row(s, compress_line_ranges(s.missing_lines))

\* The row of a file without the entry point.
missing_entry_row(sol) ==
    TableRow(sol, sol.cov.path, cov_columns(sol), <<"0", "/", "0">>,
             "Missing required entry_point function in solution.")

\* The row of a file that was executed.
executed_row(sol, total, passed) ==
    LET c == cov_columns(sol)
    IN TableRow(sol, sol.cov.path, c, tests_cell(passed, total),
                interpret_result(passed, total, c.cover_pct, c.branch, c.brpart))

\* A line of the per-problem listing.
Printed(problem, sol, asserts, status, detail) ==
    [kind |-> "line", problem |-> problem, file |-> sol.name, asserts |-> asserts,
     status |-> status, detail |-> detail]

\* The lines of the summary: the three counters and, if grand_total is not
\* zero, the success rate.
summary_lines(tested, passed, failed) ==
    [kind |-> "summary", tested |-> tested, pass |-> passed, fail |-> failed,
     rate |-> IF tested # 0
              THEN format_1f_pct(Mul(Div(FromInt(passed), FromInt(tested)), FromInt(100)))
              ELSE <<>>]

\* The lines of the combined table after header and separator, one per row.
table_lines(rs) ==
    [kind |-> "table",
     lines |-> [k \in DOMAIN rs |->
                  [name |-> rs[k].name, cells |-> render(rs[k].cov),
                   tests |-> rs[k].tests, note |-> rs[k].note]]]

NoRows == [kind |-> "No rows to summarize (no solutions or tests?)."]
NoFiles == [kind |-> "[runner] No solution files found"]

\* ------------------------------------------------------------------ inputs
\* What the * of a file name stands for: two problems of the dataset, a number
\* outside it, and no number.
Stars == {<<"1">>, <<"1", "0">>, <<"9", "9", "9">>, <<"a", "b", "c">>}

\* Official tests as a candidate makes them evaluate: all assertions hold;
\* six assertions of which four fail; an assertion's expression raises; check
\* has no assertion; there is no check; the source does not parse; the
\* candidate exits the interpreter.
AllPass == Source(TRUE, 0, <<Check(<<AssertStmt("T", NoMsg), AssertStmt("T", NoMsg)>>)>>)
SixFourFail ==
    Source(TRUE, 0,
           <<Check(<<AssertStmt("T", NoMsg), AssertStmt("F", NoMsg),
                     AssertStmt("F", MsgExpr), AssertStmt("T", NoMsg),
                     AssertStmt("F", NoMsg), AssertStmt("F", NoMsg)>>)>>)
RaisesInCheck == Source(TRUE, 0, <<Check(<<AssertStmt("T", NoMsg), AssertStmt("Raise", NoMsg)>>)>>)
NoAssertions == Source(TRUE, 0, <<Check(<<ExprStmt("T")>>)>>)
NoCheck == Source(TRUE, 0, <<DefStmt("helper", <<"candidate">>, <<AssertStmt("T", NoMsg)>>)>>)
NoParse == Source(FALSE, 0, <<>>)
ExitsInCheck == Source(TRUE, 0, <<Check(<<AssertStmt("Exit", NoMsg)>>)>>)

HalfCovered ==
    Entry([k \in SummaryKeys |->
              CASE k = "num_statements" -> 4 [] k = "covered_lines" -> 2
                [] k = "num_branches" -> 2 [] OTHER -> 1],
          <<3, 1>>, Arcs(1))

\* How a file behaves: load, entry point, test, coverage entry.
Behaviours ==
    { <<"module", TRUE, AllPass, Found(Entry(FullyCovered, <<>>, Arcs(0)))>>,
      <<"module", TRUE, SixFourFail, Found(HalfCovered)>>,
      <<"module", TRUE, RaisesInCheck, NotFound>>,
      <<"module", TRUE, NoAssertions, NotFound>>,
      <<"module", TRUE, NoCheck, Found(HalfCovered)>>,
      <<"module", TRUE, NoParse, NotFound>>,
      <<"module", TRUE, ExitsInCheck, NotFound>>,
      <<"module", FALSE, AllPass, Found(HalfCovered)>>,
      <<"ValueError", FALSE, AllPass, NotFound>>,
      <<"SystemExit", FALSE, AllPass, NotFound>> }

SolFiles == {SolFile(star, b[1], b[2], b[3], b[4]) : star \in Stars, b \in Behaviours}

\* The directories: for every name a file of some behaviour or none, at most
\* MaxFiles files in all.
Absent == <<>>
SolDirs ==
    {{SolFile(star, d[star][1], d[star][2], d[star][3], d[star][4]) :
         star \in {x \in Stars : d[x] # Absent}} :
       d \in {c \in [Stars -> Behaviours \cup {Absent}] :
                Cardinality({x \in Stars : c[x] # Absent}) <= MaxFiles}}

BatchScripts == {"humaneval_coverage_summary", "run_humaneval_openai"}

\* ----------------------------------------------------------- state machine
\* A batch runner is started on a directory.
BatchInit ==
    /\ RunnerIdle
    /\ CoverageIdle
    /\ LoopIdle
    /\ batch_script \in BatchScripts
    /\ sol_dir \in SolDirs
    /\ sol_files = <<>>
    /\ sol_idx = 0
    /\ grand_total = 0
    /\ grand_pass = 0
    /\ grand_fail = 0
    /\ rows = <<>>
    /\ printed = <<>>
    /\ loaded = <<>>
    /\ executed = <<>>
    /\ batch_pc = "main"
    /\ note_args = NotCalled
    /\ notes = NotCalled
    /\ solution_path = NotCalled
    /\ outcome = NotCalled

\* main up to the loop: files = discover_solution_files(sol_dir); without
\* files a message and return; else the counters and the rows start empty.
Discover ==
    /\ UNCHANGED <<vars, coverage_vars, loop_vars>>
    /\ batch_pc = "main"
    /\ sol_files' = discover_solution_files(sol_dir)
    /\ IF sol_files' = <<>>
       THEN /\ printed' = <<NoFiles>>
            /\ batch_pc' = "returned"
       ELSE /\ printed' = <<>>
            /\ batch_pc' = "loop"
    /\ grand_total' = 0
    /\ grand_pass' = 0
    /\ grand_fail' = 0
    /\ rows' = <<>>
    /\ UNCHANGED <<batch_script, sol_dir, sol_idx, loaded, executed, note_args,
                   notes, solution_path, outcome>>

\* One pass of `for sol in files:`; only humaneval_coverage_summary keeps rows.
ForSol ==
    /\ UNCHANGED <<vars, coverage_vars, loop_vars>>
    /\ batch_pc = "loop"
    /\ sol_idx < Len(sol_files)
    /\ LET sol == sol_files[sol_idx + 1]
           problem_id == int(split(sol.name)[2])
           res == run_check_and_count_asserts(sol.test)
           status == status_of(res.total, res.failed)
           Keep(r) == IF batch_script = "humaneval_coverage_summary"
                      THEN Append(rows, r) ELSE rows
           Continue(line, dt, dp, df, rs, ld, ex) ==
               /\ printed' = Append(printed, line)
               /\ grand_total' = grand_total + dt
               /\ grand_pass' = grand_pass + dp
               /\ grand_fail' = grand_fail + df
               /\ rows' = rs
               /\ loaded' = ld
               /\ executed' = ex
               /\ batch_pc' = "loop"
           Propagate(ld, ex) ==
               /\ loaded' = ld
               /\ executed' = ex
               /\ batch_pc' = "propagated"
               /\ UNCHANGED <<printed, grand_total, grand_pass, grand_fail, rows>>
       IN IF problem_id.kind = "ValueError"
          THEN Continue(Printed(<<"?", "?", "?", "?", "?", "?", "?">>, sol, <<"-">>,
                                "SKIP", "(bad filename)"),
                        0, 0, 0, rows, loaded, executed)
          ELSE IF ~key_in_problems(problem_id.v)
          THEN Continue(Printed(str(problem_id.v), sol, <<"-">>, "SKIP",
                                "(not in dataset)"),
                        0, 0, 0, rows, loaded, executed)
          ELSE IF sol.load = "SystemExit"
          THEN Propagate(Append(loaded, sol), executed)
          ELSE IF sol.load # "module"
          THEN Continue(Printed(str(problem_id.v), sol, <<"-">>, "ERROR",
                                "(load: ValueError)"),
                        0, 0, 1, Keep(load_error_row(sol)),
                        Append(loaded, sol), executed)
          ELSE IF ~sol.entry
          THEN Continue(Printed(str(problem_id.v), sol, <<"0", "/", "0">>, "FAIL",
                                "(missing entry point)"),
                        0, 0, 1, Keep(missing_entry_row(sol)),
                        Append(loaded, sol), executed)
          ELSE IF res.kind = "raise"
          THEN Propagate(Append(loaded, sol), Append(executed, sol))
          ELSE Continue(Printed(str(problem_id.v), sol,
                                tests_cell(res.passed, res.total), status, ""),
                        1,
                        IF status = "PASS" THEN 1 ELSE 0,
                        IF status = "FAIL" THEN 1 ELSE 0,
                        Keep(executed_row(sol, res.total, res.passed)),
                        Append(loaded, sol), Append(executed, sol))
    /\ sol_idx' = sol_idx + 1
    /\ UNCHANGED <<batch_script, sol_dir, sol_files, note_args, notes,
                   solution_path, outcome>>

\* After the loop: the summary and, in humaneval_coverage_summary, the
\* combined table, or the message that there are no rows.
Summarize ==
    /\ UNCHANGED <<vars, coverage_vars, loop_vars>>
    /\ batch_pc = "loop"
    /\ sol_idx = Len(sol_files)
    /\ printed' =
          Append(printed, summary_lines(grand_total, grand_pass, grand_fail))
          \o (IF batch_script # "humaneval_coverage_summary" THEN <<>>
              ELSE IF rows = <<>> THEN <<NoRows>>
              ELSE <<table_lines(rows)>>)
    /\ batch_pc' = "returned"
    /\ UNCHANGED <<batch_script, sol_dir, sol_files, sol_idx, grand_total,
                   grand_pass, grand_fail, rows, loaded, executed, note_args,
                   notes, solution_path, outcome>>

BatchNext ==
    \/ Discover
    \/ ForSol
    \/ Summarize

SpecBatch == BatchInit /\ [][BatchNext]_all_vars

\* ======================================================== batch properties
\* The file the next pass of the loop takes, and the identifier in its name.
InLoop == batch_pc = "loop" /\ sol_idx < Len(sol_files)
Taken == sol_files[sol_idx + 1]
IdOf(sol) == int(split(sol.name)[2])
Numbered(sol) == IdOf(sol).kind = "int"
InDataset(sol) == Numbered(sol) /\ IdOf(sol).v >= 0 /\ IdOf(sol).v <= LastProblem
LastPrinted == printed[Len(printed)]
Contains(seq, x) == \E k \in DOMAIN seq : seq[k] = x

\* C23: a pass of the batch loop over a file whose number names no problem of
\* the dataset prints one SKIP line for that file, calls neither load_module
\* nor run_check_and_count_asserts, and leaves grand_total, grand_pass and
\* grand_fail as they were.
C23_UnknownProblemSkipped ==
    [][(InLoop /\ Numbered(Taken) /\ ~InDataset(Taken) /\ sol_idx' = sol_idx + 1)
       => /\ Len(printed') = Len(printed) + 1
          /\ printed'[Len(printed')].file = Taken.name
          /\ printed'[Len(printed')].status = "SKIP"
          /\ loaded' = loaded
          /\ executed' = executed
          /\ <<grand_total', grand_pass', grand_fail'>> =
             <<grand_total, grand_pass, grand_fail>>
          /\ batch_pc' = "loop"]_all_vars

\* A file numbered 999 was skipped after another file was tested.
C23_Witness ==
    /\ batch_pc = "loop"
    /\ sol_idx = 2
    /\ Numbered(sol_files[2])
    /\ IdOf(sol_files[2]).v = 999
    /\ LastPrinted.status = "SKIP"
    /\ LastPrinted.file = sol_files[2].name
    /\ grand_total = 1
    /\ ~Contains(loaded, sol_files[2])

\* C24: a pass of the batch loop over a file of the dataset that loads but has
\* no entry point prints a SKIP line, does not call
\* run_check_and_count_asserts and does not change grand_fail.
C24_MissingEntrySkipped ==
    [][(InLoop /\ InDataset(Taken) /\ Taken.load = "module" /\ ~Taken.entry
         /\ sol_idx' = sol_idx + 1)
       => /\ printed'[Len(printed')].file = Taken.name
          /\ printed'[Len(printed')].status = "SKIP"
          /\ executed' = executed
          /\ grand_fail' = grand_fail]_all_vars

\* C25: when humaneval_coverage_summary has gone through all files, the table
\* has one row per discovered file, in the order of discovery.
C25_OneRowPerFile ==
    (batch_script = "humaneval_coverage_summary" /\ batch_pc = "returned"
       /\ sol_files # <<>>)
    => /\ Len(rows) = Len(sol_files)
       /\ \A k \in DOMAIN rows : rows[k].name.file = sol_files[k].name

\* What the executor returns for a file.
ResultOf(sol) == run_check_and_count_asserts(sol.test)
FileNamed(name) == CHOOSE sol \in sol_dir : sol.name = name
WasExecuted(name) == \E k \in DOMAIN executed : executed[k].name = name
IsLine(k) == printed[k].kind = "line"

\* C26: the line printed for an executed file has status PASS exactly when
\* the executor returned failed = 0 and total > 0, and FAIL otherwise; its
\* cell, and the tests cell of the file's row, is passed/total; six assertions
\* of which four fail give 2/6 and FAIL.
C26_StatusAndTestsCell ==
    \A k \in DOMAIN printed :
        (IsLine(k) /\ WasExecuted(printed[k].file)) =>
            LET sol == FileNamed(printed[k].file)
                res == ResultOf(sol)
                cell == str(res.passed) \o <<"/">> \o str(res.total)
            IN /\ printed[k].status \in {"PASS", "FAIL"}
               /\ printed[k].status = "PASS" <=> (res.failed = 0 /\ res.total > 0)
               /\ printed[k].asserts = cell
               /\ batch_script = "humaneval_coverage_summary" =>
                    \E j \in DOMAIN rows :
                        rows[j].name.file = sol.name /\ rows[j].tests = cell
               /\ sol.test = SixFourFail =>
                    /\ printed[k].asserts = <<"2", "/", "6">>
                    /\ printed[k].status = "FAIL"

\* The suite of six assertions was run after a file that passed, and its row
\* says 2/6.
C26_Witness ==
    /\ batch_script = "humaneval_coverage_summary"
    /\ Len(printed) = 2
    /\ IsLine(1) /\ printed[1].status = "PASS"
    /\ IsLine(2) /\ printed[2].status = "FAIL"
    /\ printed[2].asserts = <<"2", "/", "6">>
    /\ Len(rows) = 2
    /\ rows[2].tests = <<"2", "/", "6">>
    /\ FileNamed(printed[2].file).test = SixFourFail

\* C30: when a batch runner has gone through all files,
\* grand_pass + grand_fail = grand_total.
C30_CountersAddUp ==
    (batch_pc = "returned" /\ sol_files # <<>>)
    => grand_pass + grand_fail = grand_total

\* ======================================================= interpret_result
\* The largest number of test cases in a call of interpret_result.
MaxTests == 2

\* The arguments of a call: line_pct around the two thresholds.
LinePcts == {FromInt(0), Float(499, 10), FromInt(50), Float(899, 10), FromInt(90),
             FromInt(100)}

NoteArgs ==
    [tests_passed : 0..MaxTests, tests_total : 0..MaxTests, line_pct : LinePcts,
     branch_count : {0, 2}, brpart : {0, 1}]

NotReturned == ""

\* interpret_result is about to be called with some arguments in both scripts.
NoteInit ==
    /\ RunnerIdle
    /\ CoverageIdle
    /\ LoopIdle
    /\ batch_script = "none"
    /\ sol_dir = {}
    /\ sol_files = <<>>
    /\ sol_idx = 0
    /\ grand_total = 0
    /\ grand_pass = 0
    /\ grand_fail = 0
    /\ rows = <<>>
    /\ printed = <<>>
    /\ loaded = <<>>
    /\ executed = <<>>
    /\ batch_pc = "not run"
    /\ note_args \in NoteArgs
    /\ notes = [hcs |-> NotReturned, gs |-> NotReturned]
    /\ solution_path = NotCalled
    /\ outcome = NotCalled

\* note = interpret_result(...) in humaneval_coverage_summary.main
InterpretHcs ==
    /\ UNCHANGED <<vars, coverage_vars, loop_vars>>
    /\ notes.hcs = NotReturned
    /\ notes' = [notes EXCEPT !.hcs =
                    interpret_result(note_args.tests_passed, note_args.tests_total,
                                     note_args.line_pct, note_args.branch_count,
                                     note_args.brpart)]
    /\ UNCHANGED <<batch_script, sol_dir, sol_files, sol_idx, grand_total,
                   grand_pass, grand_fail, rows, printed, loaded, executed,
                   batch_pc, note_args, solution_path, outcome>>

\* note = interpret_result(...) in generate_summary.main
InterpretGs ==
    /\ UNCHANGED <<vars, coverage_vars, loop_vars>>
    /\ notes.gs = NotReturned
    /\ notes' = [notes EXCEPT !.gs =
                    gs_interpret_result(note_args.tests_passed, note_args.tests_total,
                                        note_args.line_pct, note_args.branch_count,
                                        note_args.brpart)]
    /\ UNCHANGED <<batch_script, sol_dir, sol_files, sol_idx, grand_total,
                   grand_pass, grand_fail, rows, printed, loaded, executed,
                   batch_pc, note_args, solution_path, outcome>>

NoteNext ==
    \/ InterpretHcs
    \/ InterpretGs

SpecNote == NoteInit /\ [][NoteNext]_all_vars

\* The notes.
NoCasesNote == "No HumanEval test cases executed."
LowCoverageNote ==
    "Many HumanEval cases failing with low line coverage - implementation likely incomplete."
DecentCoverageNote ==
    "Some HumanEval cases failing despite decent coverage - check edge cases and logic."
HighLineNote == "All HumanEval cases passed with high line coverage (no branch data)."
UntestedLinesNote ==
    "All HumanEval cases passed but some lines remain untested (no branch data)."
HighLinePartialNote ==
    "All HumanEval cases passed with high line coverage, but some branches are only partially tested."
MoreTestsNote ==
    "All HumanEval cases passed; consider more tests to improve branch coverage."
StrongNote == "All HumanEval cases passed with strong line and branch coverage."

AllNotes == {NoCasesNote, LowCoverageNote, DecentCoverageNote, HighLineNote,
             UntestedLinesNote, HighLinePartialNote, MoreTestsNote, StrongNote}

Below(x, k) == x.n < k * x.d
AllPassedWithBranches(a) ==
    a.tests_total # 0 /\ ~(a.tests_passed < a.tests_total) /\ a.branch_count # 0

\* The first three rules of the table.
FirstRules(a, note) ==
    /\ a.tests_total = 0 => note = NoCasesNote
    /\ (a.tests_total # 0 /\ a.tests_passed < a.tests_total) =>
          note = IF Below(a.line_pct, 50) THEN LowCoverageNote ELSE DecentCoverageNote
    /\ (a.tests_total # 0 /\ ~(a.tests_passed < a.tests_total) /\ a.branch_count = 0) =>
          note = IF Below(a.line_pct, 90) THEN UntestedLinesNote ELSE HighLineNote

BothReturned == notes.hcs # NotReturned /\ notes.gs # NotReturned

\* C27 as stated: the first three rules, and with all cases passed and branch
\* data the note is a function of whether brpart > 0 alone; one note of the
\* table for every input, the same in both scripts.
C27_Original ==
    BothReturned =>
        /\ notes.hcs \in AllNotes
        /\ notes.gs = notes.hcs
        /\ FirstRules(note_args, notes.hcs)
        /\ AllPassedWithBranches(note_args) =>
             \A b \in NoteArgs :
                 (AllPassedWithBranches(b) /\ (b.brpart > 0) = (note_args.brpart > 0))
                 => interpret_result(b.tests_passed, b.tests_total, b.line_pct,
                                     b.branch_count, b.brpart) = notes.hcs

\* C27: the first three rules; with all cases passed and branch data the note
\* is the strong-coverage note when no branch is partially covered, and
\* otherwise selected by line% >= 90; one note of the table for every input,
\* the same in both scripts.
C27_DecisionTable ==
    BothReturned =>
        /\ notes.hcs \in AllNotes
        /\ notes.gs = notes.hcs
        /\ FirstRules(note_args, notes.hcs)
        /\ AllPassedWithBranches(note_args) =>
             notes.hcs = IF note_args.brpart = 0 THEN StrongNote
                         ELSE IF Below(note_args.line_pct, 90) THEN MoreTestsNote
                         ELSE HighLinePartialNote

\* All cases passed, a branch is partially covered and the line coverage is
\* 90%: both scripts give the note on high line coverage with partial branches.
C27_Witness ==
    /\ BothReturned
    /\ note_args.tests_total = MaxTests
    /\ note_args.tests_passed = MaxTests
    /\ note_args.branch_count = 2
    /\ note_args.brpart = 1
    /\ note_args.line_pct = FromInt(90)
    /\ notes.hcs = HighLinePartialNote
    /\ notes.gs = HighLinePartialNote

\* ==================================================== test_humaneval_base
\* How pytest reports a test.
Outcome(kind) == [kind |-> kind]

\* exec(test_code, exec_globals): the test source as it is, run as a module.
exec_test_code(src) ==
    LET st0 == [env |-> NoEnv, records |-> <<>>, exc |-> NoExc,
                out |-> "__stdout__", err |-> "__stderr__", emitted |-> {},
                calls |-> 0]
    IN IF ~src.ok THEN Raise(st0, "SyntaxError", "invalid syntax")
       ELSE IF ReturnOutsideFunction(ast_parse(src))
       THEN Raise(st0, "SyntaxError", "'return' outside function")
       ELSE ExecStmts(ast_parse(src).body, st0, "module")

\* test_humaneval_base(solution_path): pytest.fail, pytest.skip, an exception
\* that leaves the function, or a return.
test_humaneval_base(path) ==
    LET problem_id == int(split(path.name)[2])
    IN IF problem_id.kind = "ValueError" THEN Outcome("failed")
       ELSE IF ~key_in_problems(problem_id.v) THEN Outcome("skipped")
       ELSE IF path.load # "module" THEN Outcome("failed")
       ELSE IF ~path.entry THEN Outcome("failed")
       ELSE IF exec_test_code(path.test).exc # NoExc THEN Outcome("failed")
       ELSE Outcome("passed")

\* Official tests, and sources with statements outside check.
OfficialTests ==
    {AllPass, SixFourFail, RaisesInCheck, NoAssertions, NoCheck, NoParse,
     Source(TRUE, 0, <<AssertStmt("F", NoMsg), Check(<<AssertStmt("T", NoMsg)>>)>>),
     Source(TRUE, 0, <<ExprStmt("Raise"), Check(<<AssertStmt("T", NoMsg)>>)>>)}

BaselineFiles ==
    {SolFile(star, load, entry, test, NotFound) :
        star \in Stars, load \in {"module", "ValueError"}, entry \in BOOLEAN,
        test \in OfficialTests}

\* pytest is about to run test_humaneval_base on a solution file.
BaselineInit ==
    /\ RunnerIdle
    /\ CoverageIdle
    /\ LoopIdle
    /\ batch_script = "none"
    /\ sol_dir = {}
    /\ sol_files = <<>>
    /\ sol_idx = 0
    /\ grand_total = 0
    /\ grand_pass = 0
    /\ grand_fail = 0
    /\ rows = <<>>
    /\ printed = <<>>
    /\ loaded = <<>>
    /\ executed = <<>>
    /\ batch_pc = "not run"
    /\ note_args = NotCalled
    /\ notes = NotCalled
    /\ solution_path \in BaselineFiles
    /\ outcome = NotCalled

TestHumanevalBase ==
    /\ UNCHANGED <<vars, coverage_vars, loop_vars>>
    /\ outcome = NotCalled
    /\ outcome' = test_humaneval_base(solution_path)
    /\ UNCHANGED <<batch_script, sol_dir, sol_files, sol_idx, grand_total,
                   grand_pass, grand_fail, rows, printed, loaded, executed,
                   batch_pc, note_args, notes, solution_path>>

BaselineNext == TestHumanevalBase

SpecBaseline == BaselineInit /\ [][BaselineNext]_all_vars

\* Calling the official check on the solution's function raises AssertionError.
ViolatesOfficialAssertion(sol) ==
    /\ sol.test.ok
    /\ \E k \in DOMAIN sol.test.body :
          LET s == sol.test.body[k]
          IN /\ s.kind = "FunctionDef"
             /\ s.name = "check"
             /\ \E j \in DOMAIN s.body :
                   /\ s.body[j].kind = "Assert"
                   /\ s.body[j].test = "F"
                   /\ \A h \in 1..(j - 1) :
                         s.body[h].kind = "Assert" /\ s.body[h].test = "T"

\* C28: for a solution of a problem of the dataset that loads and has the
\* entry point, test_humaneval_base fails when the official check, called on
\* the solution's function, violates an assertion.
C28_ViolatedAssertionFails ==
    (outcome # NotCalled /\ InDataset(solution_path)
       /\ solution_path.load = "module" /\ solution_path.entry
       /\ ViolatesOfficialAssertion(solution_path))
    => outcome = Outcome("failed")

====
